---- MODULE Spec2Model ----
(***************************************************************************)
(* Model of todo-mcp's task repository (TaskRepo, src/storage/task.repo.ts)*)
(* on top of the structured snapshot store (TomlFileStorage).              *)
(*                                                                         *)
(* Values.  A task is a function from field names to values, as a          *)
(* JavaScript object is.  The value `undefined` is the string Undef; a     *)
(* field never assigned and a field holding undefined are both Undef.      *)
(* "Task | undefined" results are sequences of length 0 or 1.  The         *)
(* in-memory Map<string, Task> is a sequence of <<key, val>> entries in    *)
(* insertion order, as a JavaScript Map iterates.  Dates are integers.     *)
(***************************************************************************)
EXTENDS Integers, Sequences, FiniteSets, TLC

VARIABLES
    tasks,      \* TaskRepo.tasks: the in-memory Map, in insertion order
    store,      \* TomlFileStorage.tasks: the list the backing file mirrors
    uuidSeq,    \* how many identifiers randomUUID() has handed out
    now,        \* the wall clock read by new Date()
    last,       \* the most recent call: operation, arguments, outcome
    returned,   \* history: the ids create() has returned so far
    removed,    \* history: the ids remove() has removed so far
    file,       \* the backing file of TomlFileStorage, as it is on disk
    filePath,   \* the configured path of the storage: undefined until init has set it
    tasksFile,  \* MarkdownStorage: tasks.md, whether it exists and its text
    contentDir, \* MarkdownStorage: the files of content/, each with its task id and text
    disk,       \* the files that patches name, by path
    loading     \* the array a pending _initializeRepo() builds the map from, if any

vars == <<tasks, store, uuidSeq, now, last, returned, removed, file, filePath, tasksFile, contentDir, disk, loading>>

\* ------------------------------------------------------------ bounds
MaxTasks == 3       \* identifiers randomUUID() may hand out
MaxClock == 4       \* clock readings that stamp a persisted task

\* ------------------------------------------------------------ values
Undef == "undefined"
NoError == "none"
NotFoundError == "Error: Task not found"
Hang == "does not return"

TaskStatus == {"PENDING", "DONE", "DELETED"}

\* JavaScript truthiness of a string-or-undefined value.
Truthy(v) == v \notin {Undef, ""}

\* randomUUID(): the n-th identifier handed out; never repeats an earlier one.
randomUUIDReuse(n) == "u1"
randomUUID(n) == "u" \o ToString(n)

UUIDs == {randomUUID(n) : n \in 1..MaxTasks}
UnknownId == "no-such-id"
\* identifiers a caller may pass
CallIds == UUIDs \cup {UnknownId}

\* ------------------------------------------------------------ Map<string, Task>
MapKeys(m) == {m[i].key : i \in 1..Len(m)}
MapHas(m, k) == k \in MapKeys(m)
MapGet(m, k) == m[CHOOSE i \in 1..Len(m) : m[i].key = k].val
MapSet(m, k, v) ==
    IF MapHas(m, k)
    THEN [i \in 1..Len(m) |-> IF m[i].key = k THEN [key |-> k, val |-> v] ELSE m[i]]
    ELSE Append(m, [key |-> k, val |-> v])
MapDelete(m, k) == SelectSeq(m, LAMBDA e : e.key # k)
MapValues(m) == [i \in 1..Len(m) |-> m[i].val]

\* ------------------------------------------------------------ TomlFileStorage
\* createTask(task): defaults for the fields the partial task lacks, then the
\* partial task spread over them; the result is pushed onto the list.
storageDefaults(genId, t) ==
    [id |-> genId, title |-> "Untitled Task", summary |-> "", description |-> "",
     prompt |-> "", role |-> "", contexts |-> <<>>, status |-> "PENDING",
     createdAt |-> t, updatedAt |-> t]

storageDefaultsOnly(task, genId, t) == storageDefaults(genId, t)
storageNewTask(task, genId, t) ==
    LET d == storageDefaults(genId, t)
    IN [k \in DOMAIN d \cup DOMAIN task |-> IF k \in DOMAIN task THEN task[k] ELSE d[k]]

storageCreateTask(st, task, genId, t) == Append(st, storageNewTask(task, genId, t))

\* obj[k] of a JavaScript object: undefined when the object has no such key
field(obj, k) == IF k \in DOMAIN obj THEN obj[k] ELSE Undef

\* the keys of an object whose value is not undefined
definedKeys(obj) ==
    {k \in DOMAIN obj : k \in {"createdAt", "updatedAt", "contexts"} \/ obj[k] # Undef}

\* JSON.parse(JSON.stringify(task)) followed by the restoring of the two
\* dates: keys holding undefined are dropped, createdAt and updatedAt are
\* always keys of the copy.
jsonCopy(r) ==
    [k \in definedKeys(r) \cup {"createdAt", "updatedAt"} |-> field(r, k)]

\* getTasks(parentId?): deep copies of the records, filtered by parentId when
\* one is given.
storageGetTasks(st, parentId) ==
    LET filteredTasks ==
            IF Truthy(parentId)
            THEN SelectSeq(st, LAMBDA r : field(r, "parentId") = parentId)
            ELSE st
    IN [i \in 1..Len(filteredTasks) |-> jsonCopy(filteredTasks[i])]

\* deleteTask(id): drops every record with that id; no error when there is none.
storageDeleteTask(st, id) == SelectSeq(st, LAMBDA r : r.id # id)

\* updateTask(id, taskUpdate): the record built for the first task with that
\* id.  The object literal names the fields of Task one by one, spreads
\* taskUpdate over them (every own key, a key holding undefined included) and
\* stamps updatedAt; id and createdAt are then taken from the existing record
\* again.  A key of the existing record that the literal does not name and
\* the update does not carry is not copied.
namedFields ==
    {"id", "title", "summary", "description", "prompt", "role", "contexts",
     "status", "createdAt", "parentId"}

storageSpreadOnly(existing, taskUpdate, t) ==
    [k \in namedFields \cup DOMAIN taskUpdate \cup {"updatedAt"} |->
        IF k = "updatedAt" THEN t
        ELSE IF k \in DOMAIN taskUpdate THEN taskUpdate[k]
        ELSE field(existing, k)]
storageUpdatedTask(existing, taskUpdate, t) ==
    [k \in namedFields \cup DOMAIN taskUpdate \cup {"updatedAt"} |->
        IF k \in {"id", "createdAt"} THEN field(existing, k)
        ELSE IF k = "updatedAt" THEN t
        ELSE IF k \in DOMAIN taskUpdate THEN taskUpdate[k]
        ELSE field(existing, k)]

\* findIndex((t) => t.id === id): 0 stands for -1
storageFindIndex(st, id) ==
    IF \E i \in 1..Len(st) : st[i].id = id
    THEN CHOOSE i \in 1..Len(st) :
            st[i].id = id /\ \A j \in 1..(i - 1) : st[j].id # id
    ELSE 0

storageUpdateTask(st, id, taskUpdate, t) ==
    [st EXCEPT ![storageFindIndex(st, id)] =
        storageUpdatedTask(st[storageFindIndex(st, id)], taskUpdate, t)]

\* ------------------------------------------------------------ text
\* Text is a sequence of pieces: the characters that the code inspects one by
\* one (line break, tab, blank, brackets, the completion mark, the characters
\* of ids and titles) and the fixed chunks of the line template.
Whitespace == {" ", "\t"}

\* String.prototype.includes
includes(text, pat) ==
    \E i \in 1..(Len(text) - Len(pat) + 1) : SubSeq(text, i, i + Len(pat) - 1) = pat

\* position of the first occurrence of a non-empty pat in text, 0 if none
indexOf(text, pat) ==
    LET hits == {i \in 1..(Len(text) - Len(pat) + 1) : SubSeq(text, i, i + Len(pat) - 1) = pat}
    IN IF hits = {} THEN 0 ELSE CHOOSE i \in hits : \A j \in hits : i <= j

\* String.prototype.split(separator): an empty separator cuts between all
\* characters, so the empty string splits into no parts at all
RECURSIVE split(_, _)
split(text, sep) ==
    IF sep = <<>>
    THEN [i \in 1..Len(text) |-> <<text[i]>>]
    ELSE LET i == indexOf(text, sep)
         IN IF i = 0 THEN <<text>>
            ELSE <<SubSeq(text, 1, i - 1)>> \o split(SubSeq(text, i + Len(sep), Len(text)), sep)

\* Array.prototype.join
RECURSIVE join(_, _)
join(parts, sep) ==
    IF Len(parts) = 0 THEN <<>>
    ELSE IF Len(parts) = 1 THEN parts[1]
    ELSE parts[1] \o sep \o join(Tail(parts), sep)

\* line.match(/^(\s*)/)[0]: the leading run of whitespace
RECURSIVE leadingWhitespace(_)
leadingWhitespace(line) ==
    IF line # <<>> /\ Head(line) \in Whitespace
    THEN <<Head(line)>> \o leadingWhitespace(Tail(line))
    ELSE <<>>

\* line.trim() === ""
trimsToEmpty(line) == \A i \in 1..Len(line) : line[i] \in Whitespace

startsWith(text, pat) == Len(pat) <= Len(text) /\ SubSeq(text, 1, Len(pat)) = pat

\* Array.prototype.findIndex over lines, 0 for -1
findLine(lines, pat) ==
    LET hits == {i \in 1..Len(lines) : includes(lines[i], pat)}
    IN IF hits = {} THEN 0 ELSE CHOOSE i \in hits : \A j \in hits : i <= j

\* lines.splice(i, 1) and lines.splice(i, 0, line), i counted from 1
removeAt(lines, i) == SubSeq(lines, 1, i - 1) \o SubSeq(lines, i + 1, Len(lines))
insertAt(lines, i, line) == SubSeq(lines, 1, i - 1) \o <<line>> \o SubSeq(lines, i, Len(lines))

\* ------------------------------------------------------------ findAndReplace
\* One patch with a string `from` against one file.  A missing file is an
\* error; a `from` that does not occur appends `to`; otherwise every
\* occurrence is replaced and the file is written when the text changed.
NoTasksFile == [exists |-> FALSE, content |-> <<>>]
fileWith(text) == [exists |-> TRUE, content |-> text]

\* a file that fs.access finds and fs.readFile cannot read
UnreadableTextFile == [exists |-> TRUE, content |-> <<>>, unreadable |-> TRUE]

TaskFilePath == "tasks.md"
OtherFilePath == "notes.md"
PatchFiles == {TaskFilePath, OtherFilePath}
NoDisk == [f \in PatchFiles |-> NoTasksFile]

FileNotExistedError == "FileNotExistedError"
UnableToModifyFileError == "UnableToModifyFileError"

endsWithNewline(text) == text # <<>> /\ text[Len(text)] = "\n"

appendWithoutBreak(content, to) == content \o to

appendTo(content, to) ==
    (IF ~endsWithNewline(content) /\ Len(content) > 0 THEN content \o <<"\n">> ELSE content) \o to

\* the mutations of findAndReplace: one that creates the file it misses, one
\* that replaces the first occurrence only
findAndReplaceCreating(f, from, to) ==
    IF ~f.exists
    THEN [file |-> fileWith(to), changed |-> FALSE, appended |-> FALSE,
          err |-> FileNotExistedError]
    ELSE IF "unreadable" \in DOMAIN f
    THEN [file |-> f, changed |-> FALSE, appended |-> FALSE, err |-> UnableToModifyFileError]
    ELSE IF ~includes(f.content, from)
    THEN [file |-> fileWith(appendTo(f.content, to)), changed |-> TRUE, appended |-> TRUE,
          err |-> NoError]
    ELSE LET content == join(split(f.content, from), to)
         IN [file |-> IF content # f.content THEN fileWith(content) ELSE f,
             changed |-> content # f.content, appended |-> FALSE, err |-> NoError]

findAndReplaceFirstOnly(f, from, to) ==
    IF ~f.exists
    THEN [file |-> f, changed |-> FALSE, appended |-> FALSE, err |-> FileNotExistedError]
    ELSE IF "unreadable" \in DOMAIN f
    THEN [file |-> f, changed |-> FALSE, appended |-> FALSE, err |-> UnableToModifyFileError]
    ELSE IF ~includes(f.content, from)
    THEN [file |-> fileWith(appendTo(f.content, to)), changed |-> TRUE, appended |-> TRUE,
          err |-> NoError]
    ELSE LET i == IF from = <<>> THEN 1 ELSE indexOf(f.content, from)
             content == SubSeq(f.content, 1, i - 1) \o to
                            \o SubSeq(f.content, i + Len(from), Len(f.content))
         IN [file |-> IF content # f.content THEN fileWith(content) ELSE f,
             changed |-> content # f.content, appended |-> FALSE, err |-> NoError]

findAndReplace(f, from, to) ==
    IF ~f.exists
    THEN [file |-> f, changed |-> FALSE, appended |-> FALSE, err |-> FileNotExistedError]
    ELSE IF "unreadable" \in DOMAIN f
    THEN [file |-> f, changed |-> FALSE, appended |-> FALSE, err |-> UnableToModifyFileError]
    ELSE IF ~includes(f.content, from)
    THEN [file |-> fileWith(appendTo(f.content, to)), changed |-> TRUE, appended |-> TRUE,
          err |-> NoError]
    ELSE LET content == join(split(f.content, from), to)
         IN [file |-> IF content # f.content THEN fileWith(content) ELSE f,
             changed |-> content # f.content, appended |-> FALSE, err |-> NoError]

\* the patch as findAndReplace reports it
annotated(patch, r) ==
    [file |-> patch.file, from |-> patch.from, to |-> patch.to,
     changed |-> r.changed, appended |-> r.appended, err |-> r.err]

\* findAndReplace(patches): the loop over the patches, each against the files
\* as the patches before it left them
RECURSIVE findAndReplaceUntilError(_, _)
findAndReplaceUntilError(d, patches) ==
    IF patches = <<>> THEN [disk |-> d, results |-> <<>>]
    ELSE LET patch == Head(patches)
             r == findAndReplace(d[patch.file], patch.from, patch.to)
             rest == findAndReplaceUntilError([d EXCEPT ![patch.file] = r.file], Tail(patches))
         IN IF r.err # NoError
            THEN [disk |-> d, results |-> <<annotated(patch, r)>>]
            ELSE [disk |-> rest.disk, results |-> <<annotated(patch, r)>> \o rest.results]

RECURSIVE findAndReplacePatches(_, _)
findAndReplacePatches(d, patches) ==
    IF patches = <<>> THEN [disk |-> d, results |-> <<>>]
    ELSE LET patch == Head(patches)
             r == findAndReplace(d[patch.file], patch.from, patch.to)
             rest == findAndReplacePatches([d EXCEPT ![patch.file] = r.file], Tail(patches))
         IN [disk |-> rest.disk, results |-> <<annotated(patch, r)>> \o rest.results]

\* ------------------------------------------------------------ MarkdownStorage
\* tasks.md holds one bullet line per task, subtasks one tab deeper below
\* their parent; content/<id>.md holds the task's details.
Newline == <<"\n">>

taskEntry(title, taskId) ==
    <<"- ", "[", " ", "]", " ", "[">> \o title \o <<"]", "(./content/">> \o taskId
        \o <<".md)", " ", "id:">> \o taskId

idToken(id) == <<"id:">> \o id

\* fs.readFile(tasksFilePath).catch(ENOENT => "")
readTasksFile(f) == IF f.exists THEN f.content ELSE <<>>

\* a || b on strings
orElse(obj, k, default) == IF k \in DOMAIN obj /\ obj[k] # <<>> THEN obj[k] ELSE default

mdNewTask(task, taskId) ==
    [k \in DOMAIN task \cup {"id", "title", "prompt", "role", "context", "is_completed"} |->
        CASE k = "id" -> taskId
          [] k = "title" -> orElse(task, "title", <<"Untitled Task">>)
          [] k = "prompt" -> orElse(task, "prompt", <<>>)
          [] k = "role" -> orElse(task, "role", <<>>)
          [] k = "context" -> orElse(task, "context", <<>>)
          [] k = "is_completed" -> FALSE
          [] OTHER -> task[k]]

\* the lines createTask works on
linesForCreate(originalTasksContent) ==
    LET lines == SelectSeq(split(originalTasksContent, Newline),
                           LAMBDA line : ~trimsToEmpty(line) \/ line = <<>>)
    IN IF Len(lines) = 1 /\ lines[1] = <<>> THEN <<>> ELSE lines

linesWithEntryAtEnd(lines, newTask) ==
    Append(lines, taskEntry(newTask.title, newTask.id))

linesWithEntry(lines, newTask) ==
    LET entry == taskEntry(newTask.title, newTask.id)
        parentIndex == IF "parentId" \in DOMAIN newTask /\ newTask.parentId # <<>>
                       THEN findLine(lines, idToken(newTask.parentId))
                       ELSE 0
    IN IF parentIndex # 0
       THEN insertAt(lines, parentIndex + 1,
                     leadingWhitespace(lines[parentIndex]) \o <<"\t">> \o entry)
       ELSE Append(lines, entry)

\* a cascade that takes the direct children only
RECURSIVE removeSubtasksChildrenOnly(_, _, _)
removeSubtasksChildrenOnly(lines, i, taskIndent) ==
    IF i > Len(lines) THEN lines
    ELSE LET currentLineIndent == leadingWhitespace(lines[i])
         IN IF currentLineIndent = taskIndent \o <<"\t">>
            THEN removeSubtasksChildrenOnly(removeAt(lines, i), i, taskIndent)
            ELSE IF Len(currentLineIndent) <= Len(taskIndent)
            THEN lines
            ELSE removeSubtasksChildrenOnly(lines, i + 1, taskIndent)

\* the loop of deleteTask over the lines that follow the removed one
RECURSIVE removeSubtasks(_, _, _)
removeSubtasks(lines, i, taskIndent) ==
    IF i > Len(lines) THEN lines
    ELSE LET currentLineIndent == leadingWhitespace(lines[i])
         IN IF /\ Len(currentLineIndent) > Len(taskIndent)
               /\ startsWith(currentLineIndent, taskIndent \o <<"\t">>)
            THEN removeSubtasks(removeAt(lines, i), i, taskIndent)
            ELSE IF Len(currentLineIndent) <= Len(taskIndent)
            THEN lines
            ELSE removeSubtasks(lines, i + 1, taskIndent)

linesAfterDelete(lines, id) ==
    LET taskIndex == findLine(lines, idToken(id))
    IN IF taskIndex = 0 THEN lines
       ELSE removeSubtasks(removeAt(lines, taskIndex), taskIndex,
                           leadingWhitespace(lines[taskIndex]))

\* line.match(/id:(\S+)/)[1]: what follows the first id: up to whitespace
RECURSIVE nonWhitespaceRun(_)
nonWhitespaceRun(text) ==
    IF text # <<>> /\ Head(text) \notin Whitespace
    THEN <<Head(text)>> \o nonWhitespaceRun(Tail(text))
    ELSE <<>>

idOfLine(line) ==
    nonWhitespaceRun(SubSeq(line, indexOf(line, <<"id:">>) + 1, Len(line)))

\* line.match(/id:(\S+)/): the first id: that a non-blank character follows,
\* with the run of non-blank characters behind it; no match is <<>>, a match
\* is the one-element sequence of the captured text
idMatch(line) ==
    LET at == {i \in 1..(Len(line) - 1) : line[i] = "id:" /\ line[i + 1] \notin Whitespace}
    IN IF at = {} THEN <<>>
       ELSE LET i == CHOOSE j \in at : \A k \in at : j <= k
            IN <<nonWhitespaceRun(SubSeq(line, i + 1, Len(line)))>>

\* line.match(/\[(.*?)\]/): the first [ that some ] follows, and what stands
\* between it and the nearest ]
titleMatch(line) ==
    LET opens == {i \in 1..Len(line) :
                    line[i] = "[" /\ \E j \in (i + 1)..Len(line) : line[j] = "]"}
    IN IF opens = {} THEN <<>>
       ELSE LET i == CHOOSE o \in opens : \A k \in opens : o <= k
                j == CHOOSE c \in (i + 1)..Len(line) :
                        line[c] = "]" /\ \A k \in (i + 1)..(c - 1) : line[k] # "]"
            IN <<SubSeq(line, i + 1, j - 1)>>

DoneMark == <<"- ", "[", "x", "]">>
PendingMark == <<"- ", "[", " ", "]">>

\* the task getTasks builds from a line
listedTask(line, parentId) ==
    LET base == [id |-> idMatch(line)[1], title |-> titleMatch(line)[1],
                 is_completed |-> includes(line, DoneMark),
                 prompt |-> <<>>, role |-> <<>>, context |-> <<>>]
    IN IF parentId = <<>> THEN base ELSE base @@ [parentId |-> parentId]

\* a scan that does not stop where the parent's subtree ends
RECURSIVE subtaskLinesToEnd(_, _, _)
subtaskLinesToEnd(lines, i, parentIndent) ==
    IF i > Len(lines) THEN <<>>
    ELSE IF leadingWhitespace(lines[i]) = parentIndent \o <<"\t">>
    THEN <<lines[i]>> \o subtaskLinesToEnd(lines, i + 1, parentIndent)
    ELSE subtaskLinesToEnd(lines, i + 1, parentIndent)

\* getTasks(parentId), parentId given: the lines below the parent's line
\* whose indentation is the parent's plus one tab, up to the first line that
\* is not indented deeper than the parent
RECURSIVE subtaskLines(_, _, _)
subtaskLines(lines, i, parentIndent) ==
    IF i > Len(lines) THEN <<>>
    ELSE LET currentLineIndent == leadingWhitespace(lines[i])
         IN IF currentLineIndent = parentIndent \o <<"\t">>
            THEN <<lines[i]>> \o subtaskLines(lines, i + 1, parentIndent)
            ELSE IF Len(currentLineIndent) <= Len(parentIndent)
            THEN <<>>
            ELSE subtaskLines(lines, i + 1, parentIndent)

mdGetTasksOf(tasksContent, parentId) ==
    LET lines == SelectSeq(split(tasksContent, Newline), LAMBDA line : ~trimsToEmpty(line))
        parentLineIndex == findLine(lines, idToken(parentId))
        found ==
            IF parentId # <<>>
            THEN IF parentLineIndex = 0 THEN <<>>
                 ELSE subtaskLines(lines, parentLineIndex + 1,
                                   leadingWhitespace(lines[parentLineIndex]))
            ELSE SelectSeq(lines, LAMBDA line :
                    /\ "\t" \notin {leadingWhitespace(line)[i] :
                                        i \in 1..Len(leadingWhitespace(line))}
                    /\ (startsWith(line, PendingMark) \/ startsWith(line, DoneMark)))
        matched == SelectSeq(found, LAMBDA line : idMatch(line) # <<>> /\ titleMatch(line) # <<>>)
    IN [i \in 1..Len(matched) |-> listedTask(matched[i], parentId)]

\* find(tasksFilePath, `id:${id}`): the first line that contains the text,
\* the empty line when there is none
findInFile(content, pat) ==
    LET lines == split(content, Newline)
    IN IF findLine(lines, pat) = 0 THEN <<>> ELSE lines[findLine(lines, pat)]

\* what getTask reads from content/<id>.md: a file that is missing, empty or
\* blank gives empty fields; text that is not JSON is the prompt
contentOf(dir, id) ==
    IF \E c \in dir : c.id = id THEN (CHOOSE c \in dir : c.id = id).content ELSE <<>>

mdGetTaskOf(taskLine, id, dir) ==
    [id |-> id,
     title |-> IF titleMatch(taskLine) = <<>> THEN <<"Untitled Task">> ELSE titleMatch(taskLine)[1],
     is_completed |-> includes(taskLine, DoneMark),
     prompt |-> IF trimsToEmpty(contentOf(dir, id)) THEN <<>> ELSE contentOf(dir, id),
     role |-> <<>>,
     context |-> <<>>]

\* updatedTaskLine.replace(/\[(.*?)\]/, `[${title}]`): the first bracketed
\* span of the line, whichever it is, gets the new text
withTitle(line, title) ==
    LET opens == {i \in 1..Len(line) :
                    line[i] = "[" /\ \E j \in (i + 1)..Len(line) : line[j] = "]"}
    IN IF opens = {} THEN line
       ELSE LET i == CHOOSE o \in opens : \A k \in opens : o <= k
                j == CHOOSE c \in (i + 1)..Len(line) :
                        line[c] = "]" /\ \A k \in (i + 1)..(c - 1) : line[k] # "]"
            IN SubSeq(line, 1, i) \o title \o SubSeq(line, j, Len(line))

\* updatedTaskLine.replace(/^- \[ \]/, "- [x]") and its converse: the mark
\* is replaced where it stands at the very start of the line
withMark(line, is_completed) ==
    IF is_completed
    THEN IF startsWith(line, PendingMark)
         THEN DoneMark \o SubSeq(line, Len(PendingMark) + 1, Len(line)) ELSE line
    ELSE IF startsWith(line, DoneMark)
         THEN PendingMark \o SubSeq(line, Len(DoneMark) + 1, Len(line)) ELSE line

\* the line updateTask writes in place of the task's line
updatedTaskLine(originalTaskLine, taskUpdate) ==
    LET titled == IF "title" \in DOMAIN taskUpdate /\ taskUpdate.title # <<>>
                  THEN withTitle(originalTaskLine, taskUpdate.title)
                  ELSE originalTaskLine
    IN IF "is_completed" \in DOMAIN taskUpdate
       THEN withMark(titled, taskUpdate.is_completed)
       ELSE titled

\* the task updateTask returns: what getTask reads back, with the payload
\* fields and parentId of the update laid over it
finalTask(updatedTaskData, taskUpdate) ==
    [k \in DOMAIN updatedTaskData \cup {"parentId"} |->
        IF k \in {"prompt", "role", "context", "parentId"} /\ k \in DOMAIN taskUpdate
        THEN taskUpdate[k]
        ELSE IF k \in DOMAIN updatedTaskData THEN updatedTaskData[k] ELSE <<>>]

\* the ids that have a bullet line in tasks.md
storedIds(f) ==
    LET lines == split(readTasksFile(f), Newline)
    IN {idOfLine(lines[i]) : i \in {j \in 1..Len(lines) : includes(lines[j], <<"id:">>)}}

\* The backing file: missing, unreadable, not parseable as TOML, or a TOML document whose
\* `tasks` key holds an array of tables.
MissingFile == [kind |-> "missing", tasks |-> <<>>]
GarbageFile == [kind |-> "garbage", tasks |-> <<>>]
UnreadableFile == [kind |-> "unreadable", tasks |-> <<>>]
StoragePath == "tasks.toml"
NotInitializedError == "Error: Storage not initialized. Call init() first."

\* TOML.stringify({ tasks }): one table per task holding the keys whose value
\* is defined; a key holding undefined is not written.
tomlStringify(st) ==
    [kind |-> "toml",
     tasks |-> [i \in 1..Len(st) |-> [k \in definedKeys(st[i]) |-> st[i][k]]]]

\* saveTasks(): the whole list, serialised, replaces the content of the file
saveTasksSkipped(st) == MissingFile
saveTasks(st) == tomlStringify(st)

\* what init makes of a parseable file: every table becomes a task, a missing
\* createdAt or updatedAt becomes the time of the load
loadTasks(f, t) ==
    [i \in 1..Len(f.tasks) |->
        [k \in DOMAIN f.tasks[i] \cup {"createdAt", "updatedAt"} |->
            IF k \in DOMAIN f.tasks[i] THEN f.tasks[i][k] ELSE t]]

\* the file after deleteTask(id): rewritten only when a record was dropped
fileLeftAsIs(st, f, id) == f
fileAfterDelete(st, f, id) ==
    IF Len(storageDeleteTask(st, id)) = Len(st) THEN f
    ELSE saveTasks(storageDeleteTask(st, id))

\* ------------------------------------------------------------ TaskRepo helpers
\* _initializeRepo(): new Map(Object.entries(allTasks)) on the ARRAY getTasks()
\* returns: the keys are the array indices "0", "1", ...
_initializeRepo(st) ==
    LET allTasks == storageGetTasks(st, Undef)
    IN [i \in 1..Len(allTasks) |-> [key |-> ToString(i - 1), val |-> allTasks[i]]]

\* find(id): the task when present and PENDING, else undefined.
findAnyStatus(m, id) == IF MapHas(m, id) THEN <<MapGet(m, id)>> ELSE <<>>
find(m, id) ==
    IF MapHas(m, id) /\ MapGet(m, id).status = "PENDING" THEN <<MapGet(m, id)>> ELSE <<>>

\* _checkForCycle(taskId, potentialParentId): walks the ancestor chain from the
\* potential parent through the map.  A walk longer than the map has entries
\* has revisited a key and never ends.
RECURSIVE ancestorWalk(_, _, _, _)
ancestorWalk(m, taskId, currentAncestorId, fuel) ==
    IF ~Truthy(currentAncestorId) THEN NoError
    ELSE IF currentAncestorId = taskId THEN "CycleError"
    ELSE IF ~MapHas(m, currentAncestorId) THEN NoError
    ELSE IF fuel = 0 THEN Hang
    ELSE ancestorWalk(m, taskId, field(MapGet(m, currentAncestorId), "parentId"), fuel - 1)

checkDirectParentOnly(m, taskId, potentialParentId) ==
    IF potentialParentId = taskId THEN "CycleError" ELSE NoError
checkAfterStep(m, taskId, potentialParentId) ==
    IF ~Truthy(potentialParentId) \/ ~MapHas(m, potentialParentId) THEN NoError
    ELSE ancestorWalk(m, taskId, MapGet(m, potentialParentId).parentId, Len(m))
_checkForCycle(m, taskId, potentialParentId) ==
    ancestorWalk(m, taskId, potentialParentId, Len(m))

\* _persistTask(task): tasks.set(task.id, task); storage.createTask(task).
\* The identifier the storage generates is overridden by the task's own.
_persistTaskMap(m, task) == MapSet(m, task.id, task)
_persistTaskStore(st, task, t) == storageCreateTask(st, task, task.id, t)

\* _removeTaskFromPersistence(taskId)
removeFromStorageOnly(m, taskId) == m
_removeTaskFromPersistenceMap(m, taskId) == MapDelete(m, taskId)
removeWithChildren(st, taskId) ==
    SelectSeq(st, LAMBDA r : r.id # taskId /\ r.parentId # taskId)
_removeTaskFromPersistenceStore(st, taskId) == storageDeleteTask(st, taskId)

\* ------------------------------------------------------------ create
requiredFields == <<"title", "summary", "description", "prompt", "role">>

fieldMissing(taskData, f) == f \notin DOMAIN taskData \/ ~Truthy(taskData[f])

\* index of the first required field that is missing, 0 when none is
lastMissing(taskData) ==
    IF \E i \in 1..Len(requiredFields) : fieldMissing(taskData, requiredFields[i])
    THEN CHOOSE i \in 1..Len(requiredFields) :
            /\ fieldMissing(taskData, requiredFields[i])
            /\ \A j \in (i + 1)..Len(requiredFields) : ~fieldMissing(taskData, requiredFields[j])
    ELSE 0
firstMissing(taskData) ==
    IF \E i \in 1..Len(requiredFields) : fieldMissing(taskData, requiredFields[i])
    THEN CHOOSE i \in 1..Len(requiredFields) :
            /\ fieldMissing(taskData, requiredFields[i])
            /\ \A j \in 1..(i - 1) : ~fieldMissing(taskData, requiredFields[j])
    ELSE 0

dtoParentId(taskData) ==
    IF "parentId" \in DOMAIN taskData THEN taskData["parentId"] ELSE Undef

\* { id, ...taskData, contexts: taskData.contexts || [], status: "PENDING",
\*   createdAt: now, updatedAt: now }
newTask(id, taskData, t) ==
    [k \in {"id", "parentId", "contexts", "status", "createdAt", "updatedAt"}
           \cup DOMAIN taskData |->
        IF k = "contexts"
            THEN (IF "contexts" \in DOMAIN taskData THEN taskData["contexts"] ELSE <<>>)
        ELSE IF k = "status" THEN "PENDING"
        ELSE IF k \in {"createdAt", "updatedAt"} THEN t
        ELSE IF k \in DOMAIN taskData THEN taskData[k]
        ELSE IF k = "id" THEN id
        ELSE Undef]

\* the parent checks of create: find(parentId), then _checkForCycle(id, parentId)
createParentCheck(m, id, taskData) ==
    IF ~Truthy(dtoParentId(taskData)) THEN NoError
    ELSE IF find(m, dtoParentId(taskData)) = <<>> THEN "ParentNotFoundError"
    ELSE _checkForCycle(m, id, dtoParentId(taskData))

\* ------------------------------------------------------------ update
\* keys of the patch that are own properties and whose value is not undefined
DateKeys == {"createdAt", "updatedAt"}
SeqKeys == {"contexts"}
assignedKeys(patch) ==
    {k \in DOMAIN patch : k \in DateKeys \cup SeqKeys \/ patch[k] # Undef}

\* the parentId branch of the patch loop
updateCycleCheckOnly(m, id, task, patch) ==
    IF "parentId" \notin assignedKeys(patch) THEN NoError
    ELSE _checkForCycle(m, id, patch["parentId"])
updateParentCheck(m, id, task, patch) ==
    IF "parentId" \notin assignedKeys(patch) THEN NoError
    ELSE IF patch["parentId"] = field(task, "parentId") THEN NoError
    ELSE IF ~Truthy(patch["parentId"]) THEN NoError
    ELSE IF find(m, patch["parentId"]) = <<>> THEN "ParentNotFoundError"
    ELSE _checkForCycle(m, id, patch["parentId"])

\* { ...task } with every assigned key of the patch copied over it, then
\* updatedAt = new Date()
updatedTaskOf(task, patch, t) ==
    [k \in DOMAIN task \cup assignedKeys(patch) |->
        IF k = "updatedAt" THEN t
        ELSE IF k \in assignedKeys(patch) THEN patch[k]
        ELSE task[k]]

\* ------------------------------------------------------------ list
listOf(m, parentId) ==
    LET allTasks == MapValues(m)
        filteredByParentTasks ==
            IF parentId = Undef
            THEN SelectSeq(allTasks, LAMBDA t : ~Truthy(field(t, "parentId")))
            ELSE SelectSeq(allTasks, LAMBDA t : field(t, "parentId") = parentId)
    IN SelectSeq(filteredByParentTasks, LAMBDA t : t.status = "PENDING")

\* firstTask(): tasks[0] of the list, undefined when the list is empty
firstOf(ts) == IF Len(ts) = 0 THEN <<>> ELSE <<ts[1]>>

\* the map list() works on: reloaded from storage when it is empty
listMap(m, st) == IF Len(m) = 0 THEN _initializeRepo(st) ELSE m

\* ------------------------------------------------------------ inputs
baseDto == [title |-> "a", summary |-> "s", description |-> "d",
            prompt |-> "p", role |-> "r"]

ParentArgs == UUIDs \cup {UnknownId}

ValidDtos ==
    {baseDto}
    \cup {baseDto @@ [contexts |-> <<"c">>]}
    \cup {baseDto @@ [parentId |-> p] : p \in ParentArgs}

InvalidDtos ==
    {[baseDto EXCEPT !.prompt = ""]}
    \cup {[k \in DOMAIN baseDto \ {"title"} |-> baseDto[k]]}
    \cup {[baseDto EXCEPT !.summary = "", !.role = ""] @@ [parentId |-> UnknownId]}

CreateDtos == ValidDtos \cup InvalidDtos

\* patches of the declared type Partial<Omit<Task, "id"|"createdAt"|"updatedAt">>
Patches ==
    {[parentId |-> p] : p \in ParentArgs \cup {Undef}}
    \cup {[status |-> s] : s \in TaskStatus}
    \cup {[title |-> "b"]}
    \cup {[parentId |-> "u1", status |-> "DONE"]}

\* remove(id, options = {}): cascade true, false or absent
RemoveOptions == {<<>>, [cascade |-> TRUE], [cascade |-> FALSE]}

NoArg == <<>>

\* ------------------------------------------------------------ actions
returns(op, id, arg, ret) ==
    last' = [op |-> op, id |-> id, arg |-> arg, err |-> NoError, ret |-> ret]

throws(op, id, arg, err, what) ==
    /\ last' = [op |-> op, id |-> id, arg |-> arg, err |-> err, ret |-> what]
    /\ UNCHANGED <<tasks, store, uuidSeq, now, returned, removed, file, filePath, tasksFile, contentDir, disk, loading>>

Init ==
    /\ tasks = <<>>
    /\ store = <<>>
    /\ uuidSeq = 0
    /\ now = 1
    /\ last = [op |-> "new", id |-> Undef, arg |-> NoArg, err |-> NoError, ret |-> Undef]
    /\ returned = {}
    /\ removed = {}
    /\ file = saveTasks(<<>>)
    /\ filePath = StoragePath
    /\ tasksFile = NoTasksFile
    /\ contentDir = {}
    /\ disk = NoDisk
    /\ loading = <<>>

create ==
    \E taskData \in CreateDtos :
        LET miss == firstMissing(taskData)
            id == randomUUID(uuidSeq + 1)
            chk == createParentCheck(tasks, id, taskData)
            task == newTask(id, taskData, now)
        IN  IF miss # 0
            THEN throws("create", Undef, taskData, "MissingRequiredFieldError",
                        requiredFields[miss])
            ELSE IF chk # NoError
            THEN throws("create", Undef, taskData, chk, Undef)
            ELSE /\ uuidSeq < MaxTasks
                 /\ now < MaxClock
                 /\ tasks' = _persistTaskMap(tasks, task)
                 /\ store' = _persistTaskStore(store, task, now)
                 /\ file' = saveTasks(store')
                 /\ UNCHANGED <<filePath, tasksFile, contentDir, disk, loading>>
                 /\ uuidSeq' = uuidSeq + 1
                 /\ now' = now + 1
                 /\ returned' = returned \cup {id}
                 /\ UNCHANGED removed
                 /\ returns("create", Undef, taskData, id)

updateWith(P) ==
    \E id \in CallIds, patch \in P :
        LET found == find(tasks, id)
            task == found[1]
            chk == updateParentCheck(tasks, id, task, patch)
            updatedTask == updatedTaskOf(task, patch, now)
        IN  IF found = <<>>
            THEN throws("update", id, NoArg, NotFoundError, Undef)
            ELSE IF chk # NoError
            THEN throws("update", id, patch, chk, Undef)
            ELSE /\ now < MaxClock
                 /\ tasks' = _persistTaskMap(tasks, updatedTask)
                 /\ store' = _persistTaskStore(store, updatedTask, now)
                 /\ file' = saveTasks(store')
                 /\ UNCHANGED <<filePath, tasksFile, contentDir, disk, loading>>
                 /\ now' = now + 1
                 /\ UNCHANGED <<uuidSeq, returned, removed>>
                 /\ returns("update", id, patch, Undef)

update == updateWith(Patches)

remove ==
    \E id \in CallIds, options \in RemoveOptions :
        IF find(tasks, id) = <<>>
        THEN throws("remove", id, NoArg, NotFoundError, Undef)
        ELSE /\ tasks' = _removeTaskFromPersistenceMap(tasks, id)
             /\ store' = _removeTaskFromPersistenceStore(store, id)
             /\ file' = fileAfterDelete(store, file, id)
             /\ UNCHANGED <<filePath, tasksFile, contentDir, disk, loading>>
             /\ removed' = removed \cup {id}
             /\ UNCHANGED <<uuidSeq, now, returned>>
             /\ returns("remove", id, options, Undef)

findCall ==
    \E id \in CallIds :
        /\ returns("find", id, NoArg, find(tasks, id))
        /\ UNCHANGED <<tasks, store, uuidSeq, now, returned, removed, file, filePath, tasksFile, contentDir, disk, loading>>

list ==
    \E parentId \in CallIds \cup {Undef} :
        /\ tasks' = listMap(tasks, store)
        /\ returns("list", parentId, NoArg, listOf(listMap(tasks, store), parentId))
        /\ UNCHANGED <<store, uuidSeq, now, returned, removed, file, filePath, tasksFile, contentDir, disk, loading>>

firstTask ==
    \E parentId \in {Undef, "u1"} :
        /\ tasks' = listMap(tasks, store)
        /\ returns("firstTask", parentId, NoArg,
                   firstOf(listOf(listMap(tasks, store), parentId)))
        /\ UNCHANGED <<store, uuidSeq, now, returned, removed, file, filePath, tasksFile, contentDir, disk, loading>>

Next == create \/ update \/ remove \/ findCall \/ list \/ firstTask

Spec == Init /\ [][Next]_vars

\* ------------------------------------------------------------ a repository built on a filled storage
\* The storage holds the tasks of an earlier run when the repository is
\* constructed. The constructor calls _initializeRepo() without awaiting it:
\* storage.getTasks() has taken its copy, and the map is replaced when the
\* promise resolves, before or after the calls that follow the constructor.
storedTasks ==
    <<newTask(randomUUID(1), baseDto, 1),
      newTask(randomUUID(2), baseDto @@ [parentId |-> randomUUID(1)], 1)>>

RECURSIVE storedList(_)
storedList(n) ==
    IF n = 0 THEN <<>> ELSE _persistTaskStore(storedList(n - 1), storedTasks[n], 1)

\* new Map(Object.entries(allTasks)) on an array: the keys are the indices
mapOfEntries(allTasks) ==
    [i \in 1..Len(allTasks) |-> [key |-> ToString(i - 1), val |-> allTasks[i]]]

InitLoad ==
    /\ \E n \in 0..2 :
          /\ store = storedList(n)
          /\ uuidSeq = n
    /\ tasks = <<>>
    /\ loading = <<storageGetTasks(store, Undef)>>
    /\ now = 2
    /\ last = [op |-> "new", id |-> Undef, arg |-> NoArg, err |-> NoError, ret |-> Undef]
    /\ returned = {}
    /\ removed = {}
    /\ file = saveTasks(store)
    /\ filePath = StoragePath
    /\ tasksFile = NoTasksFile
    /\ contentDir = {}
    /\ disk = NoDisk

loadResolves ==
    /\ loading # <<>>
    /\ tasks' = mapOfEntries(loading[1])
    /\ loading' = <<>>
    /\ last' = [op |-> "load", id |-> Undef, arg |-> NoArg, err |-> NoError, ret |-> Undef]
    /\ UNCHANGED <<store, uuidSeq, now, returned, removed, file, filePath, tasksFile,
                   contentDir, disk>>

NextLoad == loadResolves \/ create \/ update \/ remove \/ findCall \/ list

SpecLoad == InitLoad /\ [][NextLoad]_vars

\* ------------------------------------------------------------ a storage whose write fails
\* fs.writeFile rejects inside saveTasks: the storage has changed its list,
\* the file is as it was, and the rejection reaches the caller of the
\* repository through _persistTask / _removeTaskFromPersistence.
StorageWriteError == "Error: EACCES"

createFails ==
    \E taskData \in ValidDtos :
        LET id == randomUUID(uuidSeq + 1)
            task == newTask(id, taskData, now)
        IN  /\ firstMissing(taskData) = 0
            /\ createParentCheck(tasks, id, taskData) = NoError
            /\ uuidSeq < MaxTasks
            /\ now < MaxClock
            /\ tasks' = _persistTaskMap(tasks, task)
            /\ store' = _persistTaskStore(store, task, now)
            /\ uuidSeq' = uuidSeq + 1
            /\ now' = now + 1
            /\ last' = [op |-> "create", id |-> Undef, arg |-> taskData,
                        err |-> StorageWriteError, ret |-> Undef]
            /\ UNCHANGED <<returned, removed, file, filePath, tasksFile, contentDir, disk,
                           loading>>

updateFails ==
    \E id \in CallIds, patch \in {[title |-> "b"], [status |-> "DONE"]} :
        LET found == find(tasks, id)
            task == found[1]
            updatedTask == updatedTaskOf(task, patch, now)
        IN  /\ found # <<>>
            /\ updateParentCheck(tasks, id, task, patch) = NoError
            /\ now < MaxClock
            /\ tasks' = _persistTaskMap(tasks, updatedTask)
            /\ store' = _persistTaskStore(store, updatedTask, now)
            /\ now' = now + 1
            /\ last' = [op |-> "update", id |-> id, arg |-> patch,
                        err |-> StorageWriteError, ret |-> Undef]
            /\ UNCHANGED <<uuidSeq, returned, removed, file, filePath, tasksFile, contentDir,
                           disk, loading>>

removeFails ==
    \E id \in CallIds :
        /\ find(tasks, id) # <<>>
        /\ tasks' = _removeTaskFromPersistenceMap(tasks, id)
        /\ store' = _removeTaskFromPersistenceStore(store, id)
        /\ last' = [op |-> "remove", id |-> id, arg |-> NoArg,
                    err |-> StorageWriteError, ret |-> Undef]
        /\ UNCHANGED <<uuidSeq, now, returned, removed, file, filePath, tasksFile, contentDir,
                       disk, loading>>

NextFailing == create \/ update \/ remove \/ createFails \/ updateFails \/ removeFails

SpecFailing == Init /\ [][NextFailing]_vars

\* ------------------------------------------------------------ patches outside the declared type
\* A caller's object may carry more keys than the parameter type names; the
\* loop of update copies every own key.
UntypedPatches ==
    {[id |-> i] : i \in UUIDs}
    \cup {[createdAt |-> 0]}
    \cup {[title |-> "b", id |-> "u2", createdAt |-> 0, updatedAt |-> 0]}

AnyPatches ==
    UntypedPatches
    \cup {[title |-> "b"], [status |-> "DONE"]}
    \cup {[parentId |-> p] : p \in UUIDs}

updateAnyPatch == updateWith(AnyPatches)

NextAnyPatch == create \/ updateAnyPatch \/ remove \/ findCall

SpecAnyPatch == Init /\ [][NextAnyPatch]_vars

\* ------------------------------------------------------------ MCP tools
\* The server registers its tools over one TaskRepo.  A tool catches what the
\* repository throws and answers with a text; listTasks and getFirstTask have
\* no catch.
AddTaskParams == {baseDto} \cup {baseDto @@ [parentId |-> p] : p \in ParentArgs}

toolAnswers(op, id, arg, text) ==
    last' = [op |-> op, id |-> id, arg |-> arg, err |-> NoError, ret |-> text]

toolFails(op, id, arg, err) ==
    last' = [op |-> op, id |-> id, arg |-> arg, err |-> err, ret |-> Undef]

repoUnchanged == UNCHANGED <<tasks, store, uuidSeq, now, returned, removed, file, filePath, tasksFile, contentDir, disk, loading>>

\* what TaskRepo.update(id, patch) throws, NoError when it goes through
updateOutcome(m, id, patch) ==
    IF find(m, id) = <<>> THEN NotFoundError
    ELSE updateParentCheck(m, id, find(m, id)[1], patch)

\* composeTaskString(task): reads task.context, a key no task has, and calls
\* join on it
composeTaskString(task) ==
    IF field(task, "context") = Undef THEN "TypeError" ELSE "text"

addTask ==
    \E params \in AddTaskParams :
        LET miss == firstMissing(params)
            id == randomUUID(uuidSeq + 1)
            chk == createParentCheck(tasks, id, params)
            task == newTask(id, params, now)
        IN  IF miss # 0
            THEN /\ toolAnswers("addTask", Undef, params, "Error adding task")
                 /\ repoUnchanged
            ELSE IF chk # NoError
            THEN /\ toolAnswers("addTask", Undef, params, "Error adding task")
                 /\ repoUnchanged
            ELSE /\ uuidSeq < MaxTasks
                 /\ now < MaxClock
                 /\ tasks' = _persistTaskMap(tasks, task)
                 /\ store' = _persistTaskStore(store, task, now)
                 /\ file' = saveTasks(store')
                 /\ uuidSeq' = uuidSeq + 1
                 /\ now' = now + 1
                 /\ returned' = returned \cup {id}
                 /\ UNCHANGED <<removed, filePath, tasksFile, contentDir, disk, loading>>
                 /\ toolAnswers("addTask", id, params, "Task added")

\* removeTask({ id, cascade }): taskRepo.remove(id, { cascade })
removeTask ==
    \E id \in CallIds, options \in RemoveOptions :
        IF find(tasks, id) = <<>>
        THEN /\ toolAnswers("removeTask", id, options, "Error removing task")
             /\ repoUnchanged
        ELSE /\ tasks' = _removeTaskFromPersistenceMap(tasks, id)
             /\ store' = _removeTaskFromPersistenceStore(store, id)
             /\ file' = fileAfterDelete(store, file, id)
             /\ removed' = removed \cup {id}
             /\ UNCHANGED <<uuidSeq, now, returned, filePath, tasksFile, contentDir, disk, loading>>
             /\ toolAnswers("removeTask", id, options, "Task removed successfully")

\* the body shared by the two completeTask tools: taskRepo.update(id, patch)
completeWith(patch) ==
    \E id \in CallIds :
        IF updateOutcome(tasks, id, patch) # NoError
        THEN /\ toolAnswers("completeTask", id, patch, "Error completing task")
             /\ repoUnchanged
        ELSE /\ now < MaxClock
             /\ tasks' = _persistTaskMap(tasks, updatedTaskOf(find(tasks, id)[1], patch, now))
             /\ store' = _persistTaskStore(store, updatedTaskOf(find(tasks, id)[1], patch, now), now)
             /\ file' = saveTasks(store')
             /\ now' = now + 1
             /\ UNCHANGED <<uuidSeq, returned, removed, filePath, tasksFile, contentDir, disk, loading>>
             /\ toolAnswers("completeTask", id, patch, "Task marked as completed")

\* completeTask of the tools-only server: update(id, { is_complted: "DONE" })
completeTask == completeWith([is_complted |-> "DONE"])

\* completeTask of the server with resources: update(id, { status: "DONE" })
completeTaskStatus == completeWith([status |-> "DONE"])

listTasks ==
    \E parentId \in CallIds \cup {Undef} :
        LET found == listOf(listMap(tasks, store), parentId)
        IN  /\ tasks' = listMap(tasks, store)
            /\ UNCHANGED <<store, uuidSeq, now, returned, removed, file, filePath, tasksFile, contentDir, disk, loading>>
            /\ IF Len(found) = 0
               THEN toolAnswers("listTasks", parentId, NoArg, "No tasks found.")
               ELSE IF \E i \in 1..Len(found) : composeTaskString(found[i]) = "TypeError"
               THEN toolFails("listTasks", parentId, NoArg, "TypeError")
               ELSE toolAnswers("listTasks", parentId, NoArg, "tasks")

getFirstTask ==
    \E parentId \in {Undef, "u1"} :
        LET task == firstOf(listOf(listMap(tasks, store), parentId))
        IN  /\ tasks' = listMap(tasks, store)
            /\ UNCHANGED <<store, uuidSeq, now, returned, removed, file, filePath, tasksFile, contentDir, disk, loading>>
            /\ IF task = <<>>
               THEN toolAnswers("getFirstTask", parentId, NoArg,
                                "No task found matching the criteria.")
               ELSE IF composeTaskString(task[1]) = "TypeError"
               THEN toolFails("getFirstTask", parentId, NoArg, "TypeError")
               ELSE toolAnswers("getFirstTask", parentId, NoArg, "task")

NextTools ==
    addTask \/ removeTask \/ completeTask \/ completeTaskStatus \/ listTasks \/ getFirstTask

SpecTools == Init /\ [][NextTools]_vars

\* ------------------------------------------------------------ callers holding results
\* find returns the object the map holds (this.tasks.get(id)); list returns a
\* new array of the objects the map holds (Array.from(values()).filter(...)).
\* Nothing copies a task on the way out, so an assignment a caller makes to a
\* field of a result is an assignment to the object in the map.  The record
\* the storage keeps is another object ({ ...defaults, ...task }).
CallerTitle == "set by caller"

writeThrough(m, task, k, v) == MapSet(m, task.id, [task EXCEPT ![k] = v])

\* the caller of the find that has just returned assigns result.title
callerWritesFound ==
    /\ last.op = "find" /\ last.ret # <<>>
    /\ tasks' = writeThrough(tasks, last.ret[1], "title", CallerTitle)
    /\ last' = [op |-> "callerWrites", id |-> last.ret[1].id, arg |-> NoArg,
                err |-> NoError, ret |-> Undef]
    /\ UNCHANGED <<store, uuidSeq, now, returned, removed, file, filePath, tasksFile, contentDir, disk, loading>>

\* the caller of the list that has just returned assigns result[i].status
callerWritesListed ==
    /\ last.op = "list"
    /\ \E i \in 1..Len(last.ret) :
          /\ tasks' = writeThrough(tasks, last.ret[i], "status", "DONE")
          /\ last' = [op |-> "callerWrites", id |-> last.ret[i].id, arg |-> NoArg,
                      err |-> NoError, ret |-> Undef]
    /\ UNCHANGED <<store, uuidSeq, now, returned, removed, file, filePath, tasksFile, contentDir, disk, loading>>

NextCallers == create \/ findCall \/ list \/ callerWritesFound \/ callerWritesListed

SpecCallers == Init /\ [][NextCallers]_vars

\* ------------------------------------------------------------ TomlFileStorage on its own
\* The store as its own callers use it: constructed, then init, then the four
\* operations, with arguments of the declared type Partial<Task>.  Writes to
\* the file go through.
StoreNotFoundError == "Error: Task with id not found."
ConfigError == "Error: File path is required in config for TomlFileStorage."

\* a file a previous run of the store has left
savedRecord ==
    [id |-> "u0", title |-> "kept", summary |-> "", description |-> "", prompt |-> "",
     role |-> "", contexts |-> <<>>, status |-> "PENDING", createdAt |-> 0, updatedAt |-> 0]

InitialFiles == {MissingFile, UnreadableFile, GarbageFile, tomlStringify(<<savedRecord>>)}

InitConfigs == {<<>>, [filePath |-> StoragePath]}

StorePartials ==
    {[title |-> "T"],
     [title |-> "F", summary |-> "s", description |-> "d", prompt |-> "p", role |-> "r",
      contexts |-> <<"c">>, status |-> "DONE"],
     [id |-> "u0", title |-> "again"]}

StoreUpdates ==
    {[summary |-> "S2"],
     [title |-> "T2", status |-> "DONE"],
     [parentId |-> "u0"],
     [id |-> "other", createdAt |-> 9, updatedAt |-> 9, title |-> "T3"]}

StoreIds == {"u0", "u1", "u2", UnknownId}

storeUnchanged == UNCHANGED <<tasks, store, uuidSeq, now, returned, removed, file, filePath, tasksFile, contentDir, disk, loading>>

storeThrowsAfterWriting(op, id, arg, err) ==
    /\ last' = [op |-> op, id |-> id, arg |-> arg, err |-> err, ret |-> Undef]
    /\ store' = <<>>
    /\ file' = [kind |-> "toml", tasks |-> <<>>]
    /\ UNCHANGED <<tasks, uuidSeq, now, returned, removed, filePath, tasksFile, contentDir, disk, loading>>

storeThrows(op, id, arg, err) ==
    /\ last' = [op |-> op, id |-> id, arg |-> arg, err |-> err, ret |-> Undef]
    /\ storeUnchanged

InitStore ==
    /\ tasks = <<>>
    /\ store = <<>>
    /\ uuidSeq = 0
    /\ now = 1
    /\ last = [op |-> "new", id |-> Undef, arg |-> NoArg, err |-> NoError, ret |-> Undef]
    /\ returned = {}
    /\ removed = {}
    /\ file \in InitialFiles
    /\ filePath = Undef
    /\ tasksFile = NoTasksFile
    /\ contentDir = {}
    /\ disk = NoDisk
    /\ loading = <<>>

init ==
    \E config \in InitConfigs :
        IF ~Truthy(field(config, "filePath"))
        THEN storeThrows("init", Undef, config, ConfigError)
        ELSE /\ filePath' = config["filePath"]
             /\ IF file.kind = "toml"
                THEN /\ store' = loadTasks(file, now)
                     /\ file' = file
                ELSE /\ store' = <<>>
                     /\ file' = saveTasks(store')
             /\ UNCHANGED <<tasks, uuidSeq, now, returned, removed, tasksFile, contentDir, disk, loading>>
             /\ returns("init", Undef, config, Undef)

createTask ==
    \E task \in StorePartials :
        IF filePath = Undef
        THEN storeThrows("createTask", Undef, task, NotInitializedError)
        ELSE /\ uuidSeq < MaxTasks
             /\ now < MaxClock
             /\ store' = storageCreateTask(store, task, randomUUID(uuidSeq + 1), now)
             /\ file' = saveTasks(store')
             /\ uuidSeq' = uuidSeq + 1
             /\ now' = now + 1
             /\ UNCHANGED <<tasks, returned, removed, filePath, tasksFile, contentDir, disk, loading>>
             /\ returns("createTask", Undef, task,
                        storageNewTask(task, randomUUID(uuidSeq + 1), now))

getTasks ==
    \E parentId \in {Undef, "u0"} :
        IF filePath = Undef
        THEN storeThrows("getTasks", parentId, NoArg, NotInitializedError)
        ELSE /\ returns("getTasks", parentId, NoArg, storageGetTasks(store, parentId))
             /\ storeUnchanged

updateTask ==
    \E id \in StoreIds, taskUpdate \in StoreUpdates :
        IF filePath = Undef
        THEN storeThrows("updateTask", id, NoArg, NotInitializedError)
        ELSE IF storageFindIndex(store, id) = 0
        THEN storeThrows("updateTask", id, NoArg, StoreNotFoundError)
        ELSE /\ now < MaxClock
             /\ store' = storageUpdateTask(store, id, taskUpdate, now)
             /\ file' = saveTasks(store')
             /\ now' = now + 1
             /\ UNCHANGED <<tasks, uuidSeq, returned, removed, filePath, tasksFile, contentDir, disk, loading>>
             /\ returns("updateTask", id, taskUpdate,
                        store'[storageFindIndex(store, id)])

deleteTask ==
    \E id \in StoreIds :
        IF filePath = Undef
        THEN storeThrows("deleteTask", id, NoArg, NotInitializedError)
        ELSE /\ store' = storageDeleteTask(store, id)
             /\ file' = fileAfterDelete(store, file, id)
             /\ UNCHANGED <<tasks, uuidSeq, now, returned, removed, filePath, tasksFile, contentDir, disk, loading>>
             /\ returns("deleteTask", id, NoArg, Undef)

NextStore == init \/ createTask \/ getTasks \/ updateTask \/ deleteTask

SpecStore == InitStore /\ [][NextStore]_vars

\* ------------------------------------------------------------ MarkdownStorage on its own
\* The store started on no tasks.md, on a tasks.md holding a single blank
\* line, and on the tasks.md of an earlier run.
MdTypeError == "TypeError"

MaxLines == 3       \* bullet lines tasks.md may grow to
MaxMdTasks == 2     \* identifiers uuidv4() may hand out

savedId == <<"u", "0">>

InitialTasksFiles ==
    {NoTasksFile, fileWith(Newline), fileWith(taskEntry(<<"K">>, savedId))}

mdUUID(n) == <<"u", ToString(n)>>

MdPartials ==
    {[title |-> <<"A">>],
     [title |-> <<"B">>, parentId |-> savedId],
     [title |-> <<"C">>, parentId |-> mdUUID(1)],
     [id |-> <<"k">>, title |-> <<"D">>]}

\* ids passed to deleteTask: stored ones, one cut short, one unrelated
MdIds == {savedId, mdUUID(1), mdUUID(2), <<"u">>, <<"z">>}

mdUnchanged ==
    UNCHANGED <<tasks, store, uuidSeq, now, returned, removed, file, filePath, tasksFile,
                contentDir, disk, loading>>

InitMd ==
    /\ tasks = <<>>
    /\ store = <<>>
    /\ uuidSeq = 0
    /\ now = 1
    /\ last = [op |-> "new", id |-> <<>>, arg |-> NoArg, err |-> NoError, ret |-> Undef]
    /\ returned = {}
    /\ removed = {}
    /\ file = MissingFile
    /\ filePath = Undef
    /\ tasksFile \in InitialTasksFiles
    /\ contentDir = IF savedId \in storedIds(tasksFile)
                    THEN {[id |-> savedId, content |-> <<>>]}
                    ELSE {}
    /\ disk = NoDisk
    /\ loading = <<>>

mdInit ==
    /\ filePath' = StoragePath
    /\ tasksFile' = IF tasksFile.exists THEN tasksFile ELSE fileWith(<<>>)
    /\ UNCHANGED <<tasks, store, uuidSeq, now, returned, removed, file, contentDir, disk, loading>>
    /\ returns("mdInit", <<>>, NoArg, Undef)

mdCreateWith(P) ==
    \E task \in P :
        IF filePath = Undef
        THEN /\ last' = [op |-> "mdCreateTask", id |-> <<>>, arg |-> task,
                         err |-> MdTypeError, ret |-> Undef]
             /\ mdUnchanged
        ELSE LET generated == ~("id" \in DOMAIN task /\ task.id # <<>>)
                 taskId == IF generated THEN mdUUID(uuidSeq + 1) ELSE task.id
                 created == mdNewTask(task, taskId)
                 originalTasksContent == readTasksFile(tasksFile)
                 newTasksContent ==
                     join(linesWithEntry(linesForCreate(originalTasksContent), created), Newline)
                 result == findAndReplace(tasksFile, originalTasksContent, newTasksContent)
             IN /\ uuidSeq < MaxMdTasks
                /\ Len(linesForCreate(originalTasksContent)) < MaxLines
                /\ uuidSeq' = IF generated THEN uuidSeq + 1 ELSE uuidSeq
                /\ contentDir' = {c \in contentDir : c.id # taskId}
                                    \cup {[id |-> taskId, content |-> <<>>]}
                /\ IF originalTasksContent # newTasksContent
                   THEN /\ tasksFile' = result.file
                        /\ last' = [op |-> "mdCreateTask", id |-> taskId, arg |-> task,
                                    err |-> result.err,
                                    ret |-> IF result.err = NoError THEN created ELSE Undef]
                   ELSE /\ tasksFile' = tasksFile
                        /\ returns("mdCreateTask", taskId, task, created)
                /\ UNCHANGED <<tasks, store, now, returned, removed, file, filePath, disk, loading>>

mdCreateTask == mdCreateWith(MdPartials)

mdDeleteTask ==
    \E id \in MdIds :
        IF filePath = Undef
        THEN /\ last' = [op |-> "mdDeleteTask", id |-> id, arg |-> NoArg,
                         err |-> MdTypeError, ret |-> Undef]
             /\ mdUnchanged
        ELSE LET originalTasksContent == readTasksFile(tasksFile)
                 newTasksContent ==
                     join(linesAfterDelete(split(originalTasksContent, Newline), id), Newline)
                 result == findAndReplace(tasksFile, originalTasksContent, newTasksContent)
             IN /\ contentDir' = {c \in contentDir : c.id # id}
                /\ IF originalTasksContent # <<>> /\ originalTasksContent # newTasksContent
                   THEN /\ tasksFile' = result.file
                        /\ last' = [op |-> "mdDeleteTask", id |-> id, arg |-> NoArg,
                                    err |-> result.err, ret |-> Undef]
                   ELSE /\ tasksFile' = tasksFile
                        /\ returns("mdDeleteTask", id, NoArg, Undef)
                /\ UNCHANGED <<tasks, store, uuidSeq, now, returned, removed, file, filePath, disk, loading>>

MdNotFoundError == "Error: Task with id not found in tasks.md"
MdNoFileError == "ENOENT"
MdParents == {<<>>, savedId, mdUUID(1)}

mdGetTask ==
    \E id \in MdIds :
        /\ IF filePath = Undef \/ ~tasksFile.exists
           THEN last' = [op |-> "mdGetTask", id |-> id, arg |-> NoArg,
                         err |-> FileNotExistedError, ret |-> Undef]
           ELSE IF findInFile(tasksFile.content, idToken(id)) = <<>>
           THEN last' = [op |-> "mdGetTask", id |-> id, arg |-> NoArg,
                         err |-> MdNotFoundError, ret |-> Undef]
           ELSE returns("mdGetTask", id, NoArg,
                        mdGetTaskOf(findInFile(tasksFile.content, idToken(id)), id, contentDir))
        /\ mdUnchanged

mdGetTasks ==
    \E parentId \in MdParents :
        /\ IF ~tasksFile.exists \/ filePath = Undef
           THEN last' = [op |-> "mdGetTasks", id |-> parentId, arg |-> NoArg,
                         err |-> IF filePath = Undef THEN MdTypeError ELSE MdNoFileError,
                         ret |-> Undef]
           ELSE returns("mdGetTasks", parentId, NoArg,
                        mdGetTasksOf(tasksFile.content, parentId))
        /\ mdUnchanged

NextMd == mdInit \/ mdCreateTask \/ mdDeleteTask \/ mdGetTask \/ mdGetTasks

SpecMd == InitMd /\ [][NextMd]_vars

\* ------------------------------------------------------------ MarkdownStorage with updateTask
MdUpdates ==
    {[title |-> <<"T">>],
     [is_completed |-> TRUE],
     [is_completed |-> FALSE],
     [title |-> <<"T">>, is_completed |-> TRUE]}

MdUpdateIds == {savedId, mdUUID(1), mdUUID(2), <<"z">>}

mdUpdateTask ==
    \E id \in MdUpdateIds, taskUpdate \in MdUpdates :
        IF filePath = Undef \/ ~tasksFile.exists
        THEN /\ last' = [op |-> "mdUpdateTask", id |-> id, arg |-> taskUpdate,
                         err |-> IF filePath = Undef THEN MdTypeError ELSE MdNoFileError,
                         ret |-> Undef]
             /\ mdUnchanged
        ELSE \E taskIndex \in {findLine(split(tasksFile.content, Newline), idToken(id))} :
             IF taskIndex = 0
             THEN /\ last' = [op |-> "mdUpdateTask", id |-> id, arg |-> taskUpdate,
                              err |-> MdNotFoundError, ret |-> Undef]
                  /\ mdUnchanged
             ELSE \E originalTaskLine \in {split(tasksFile.content, Newline)[taskIndex]} :
                  \E newLine \in {updatedTaskLine(originalTaskLine, taskUpdate)} :
                  \E result \in {IF originalTaskLine # newLine
                                 THEN findAndReplace(tasksFile, originalTaskLine, newLine)
                                 ELSE [file |-> tasksFile, err |-> NoError]} :
                     /\ tasksFile' = result.file
                     /\ last' = [op |-> "mdUpdateTask", id |-> id, arg |-> taskUpdate,
                                 err |-> result.err,
                                 ret |-> IF result.err # NoError THEN Undef
                                         ELSE finalTask(
                                            mdGetTaskOf(findInFile(result.file.content,
                                                                   idToken(id)),
                                                        id, contentDir),
                                            taskUpdate)]
                     /\ UNCHANGED <<tasks, store, uuidSeq, now, returned, removed, file,
                                    filePath, contentDir, disk, loading>>

NextMdUpdate == mdInit \/ mdCreateTask \/ mdUpdateTask \/ mdGetTask \/ mdGetTasks

SpecMdUpdate == InitMd /\ [][NextMdUpdate]_vars

\* ------------------------------------------------------------ MarkdownStorage and the content files
\* createTask called with payload fields, on a content directory that may
\* already hold the file of an id the caller passes
MdPayloadPartials ==
    {[title |-> <<"A">>, prompt |-> <<"p">>],
     [title |-> <<"B">>, prompt |-> <<"p">>, role |-> <<"r">>, context |-> <<"c">>],
     [id |-> <<"k">>, title |-> <<"D">>],
     [title |-> <<"C">>, parentId |-> savedId]}

keptContent == [id |-> <<"k">>, content |-> <<"o">>]

InitMdPayload ==
    /\ tasks = <<>>
    /\ store = <<>>
    /\ uuidSeq = 0
    /\ now = 1
    /\ last = [op |-> "new", id |-> <<>>, arg |-> NoArg, err |-> NoError, ret |-> Undef]
    /\ returned = {}
    /\ removed = {}
    /\ file = MissingFile
    /\ filePath = Undef
    /\ tasksFile \in InitialTasksFiles
    /\ contentDir \in {IF savedId \in storedIds(tasksFile)
                       THEN {[id |-> savedId, content |-> <<>>]} \cup extra
                       ELSE extra : extra \in {{}, {keptContent}}}
    /\ disk = NoDisk
    /\ loading = <<>>

mdCreateTaskPayload == mdCreateWith(MdPayloadPartials)

NextMdPayload == mdInit \/ mdCreateTaskPayload \/ mdGetTask \/ mdGetTasks

SpecMdPayload == InitMdPayload /\ [][NextMdPayload]_vars

\* ------------------------------------------------------------ the patch engine and its tool
\* findAndReplace called with a batch of one or two patches, and the
\* manage-task tool, which patches the task file with one patch.  Reads of a
\* readable file and writes go through.
MaxContent == 4

InitialTaskFiles ==
    {NoTasksFile, fileWith(<<>>), fileWith(<<"a">>), fileWith(<<"a", "\n", "a", "b">>)}

InitialOtherFiles == {NoTasksFile, UnreadableTextFile, fileWith(<<"b", "\n">>)}

Froms == {<<"a">>, <<"x">>, <<>>}
Tos == {<<"b">>, <<"a", "a">>, <<"a">>}

FilePatches ==
    [file : {TaskFilePath}, from : Froms, to : Tos]
        \cup {[file |-> OtherFilePath, from |-> <<"b">>, to |-> <<"a">>]}

\* the first patch of a batch of two
FirstPatches ==
    {[file |-> OtherFilePath, from |-> <<"a">>, to |-> <<"b">>],
     [file |-> TaskFilePath, from |-> <<"a">>, to |-> <<"a", "a">>],
     [file |-> TaskFilePath, from |-> <<"x">>, to |-> <<"a">>]}

\* the second patch of a batch of two
SecondPatches ==
    {[file |-> TaskFilePath, from |-> <<"a">>, to |-> <<"b">>],
     [file |-> TaskFilePath, from |-> <<"x">>, to |-> <<"b">>],
     [file |-> OtherFilePath, from |-> <<"b">>, to |-> <<"a">>]}

PatchBatches ==
    {<<p>> : p \in FilePatches} \cup {<<p, q>> : p \in FirstPatches, q \in SecondPatches}

withinBound(d) == \A f \in PatchFiles : Len(d[f].content) <= MaxContent

patchUnchanged ==
    UNCHANGED <<tasks, store, uuidSeq, now, returned, removed, file, filePath, tasksFile,
                contentDir, loading>>

InitPatch ==
    /\ tasks = <<>>
    /\ store = <<>>
    /\ uuidSeq = 0
    /\ now = 1
    /\ last = [op |-> "new", id |-> Undef, arg |-> <<>>, err |-> NoError, ret |-> <<>>]
    /\ returned = {}
    /\ removed = {}
    /\ file = MissingFile
    /\ filePath = Undef
    /\ tasksFile = NoTasksFile
    /\ contentDir = {}
    /\ disk \in [PatchFiles -> InitialTaskFiles \cup InitialOtherFiles]
    /\ disk[TaskFilePath] \in InitialTaskFiles
    /\ disk[OtherFilePath] \in InitialOtherFiles
    /\ loading = <<>>

findAndReplaceCall ==
    \E patches \in PatchBatches :
        LET done == findAndReplacePatches(disk, patches)
        IN /\ withinBound(done.disk)
           /\ disk' = done.disk
           /\ last' = [op |-> "findAndReplace", id |-> Undef, arg |-> patches, err |-> NoError,
                       ret |-> done.results]
           /\ patchUnchanged

\* fs.access(filePath) failing makes ensureTaskFile write the empty file
ensureTaskFile(d, path) == IF d[path].exists THEN d ELSE [d EXCEPT ![path] = fileWith(<<>>)]

manageTaskText(result) ==
    IF result.changed THEN "Task updated"
    ELSE IF result.err # NoError THEN "Error"
    ELSE "No changes made to the task file."

manageTask ==
    \E original_text \in Froms, edited_text \in Tos :
        LET patch == [file |-> TaskFilePath, from |-> original_text, to |-> edited_text]
            done == findAndReplacePatches(ensureTaskFile(disk, TaskFilePath), <<patch>>)
        IN /\ withinBound(done.disk)
           /\ disk' = done.disk
           /\ last' = [op |-> "manage-task", id |-> Undef, arg |-> <<patch>>, err |-> NoError,
                       ret |-> <<[text |-> manageTaskText(done.results[1])]>>]
           /\ patchUnchanged

NextPatch == findAndReplaceCall \/ manageTask

SpecPatch == InitPatch /\ [][NextPatch]_vars

\* ------------------------------------------------------------ properties
\* a is reached by following parentId links upwards from cur
RECURSIVE reachesUp(_, _, _, _)
reachesUp(m, cur, a, fuel) ==
    IF ~Truthy(cur) THEN FALSE
    ELSE IF cur = a THEN TRUE
    ELSE IF ~MapHas(m, cur) \/ fuel = 0 THEN FALSE
    ELSE reachesUp(m, MapGet(m, cur).parentId, a, fuel - 1)

\* a is a proper ancestor of the task stored under k
isAncestor(m, a, k) == MapHas(m, k) /\ reachesUp(m, MapGet(m, k).parentId, a, Len(m))

hasKey(f, k) == k \in DOMAIN f

idsOf(ts) == {ts[i].id : i \in 1..Len(ts)}

ListArgs == CallIds \cup {Undef}

\* C1: after any sequence of create, update and remove calls, successful or
\* failing, no task is its own ancestor: following parentId links from a task
\* never leads back to it.
C1_NoTaskIsItsOwnAncestor ==
    \A k \in MapKeys(tasks) : ~isAncestor(tasks, k, k)

\* C1 witness: an update re-parented a task earlier, and an update that would
\* have closed a cycle through that link has just been rejected.
C1_Witness ==
    /\ last.op = "update" /\ last.err = "CycleError"
    /\ LET n == last.arg["parentId"]
       IN  /\ n # last.id
           /\ MapGet(tasks, n).parentId = last.id
           /\ MapGet(tasks, n).updatedAt > MapGet(tasks, n).createdAt

\* C2: for PENDING tasks T and N, update(T, {parentId: N}) fails with
\* CycleError and changes neither the map nor the storage when N is T or a
\* descendant of T; otherwise it succeeds and T's parent is N.
C2_step ==
    (/\ last'.op = "update"
     /\ find(tasks, last'.id) # <<>>
     /\ \E patch \in Patches, n \in UUIDs :
            /\ hasKey(patch, "parentId") /\ patch["parentId"] = n
            /\ find(tasks, n) # <<>>
            /\ (last'.err = NotFoundError \/ last'.arg = patch))
    =>
    (/\ last'.err # NotFoundError
     /\ LET t == last'.id
            n == last'.arg["parentId"]
        IN  IF n = t \/ isAncestor(tasks, t, n)
            THEN /\ last'.err = "CycleError"
                 /\ tasks' = tasks
                 /\ store' = store
            ELSE /\ last'.err = NoError
                 /\ MapGet(tasks', t).parentId = n)

C2_CycleErrorOnDescendant == [][C2_step]_vars

\* C2 witness: update(A, {parentId: C}) has failed with CycleError where C is a
\* grandchild of A (C's parent is B, B's parent is A).
C2_Witness ==
    /\ last.op = "update" /\ last.err = "CycleError"
    /\ LET n == last.arg["parentId"]
       IN  /\ n # last.id
           /\ MapGet(tasks, n).parentId # last.id
           /\ isAncestor(tasks, last.id, n)

\* C3: every task whose parentId is set references a task that is present in
\* the repository.
C3_ParentIsPresent ==
    \A k \in MapKeys(tasks) :
        Truthy(MapGet(tasks, k).parentId) => MapHas(tasks, MapGet(tasks, k).parentId)

\* C4: a successful create returns an id no earlier create returned, and find
\* of that id right afterwards yields the created task: status PENDING,
\* contexts empty when none were given, createdAt equal to updatedAt.
C4_step ==
    (last'.op = "create" /\ last'.err = NoError)
    =>
    (/\ last'.ret \notin returned
     /\ find(tasks', last'.ret) # <<>>
     /\ LET t == find(tasks', last'.ret)[1]
        IN  /\ t.id = last'.ret
            /\ t.status = "PENDING"
            /\ t.title = last'.arg["title"]
            /\ t.parentId = dtoParentId(last'.arg)
            /\ (~hasKey(last'.arg, "contexts") => t.contexts = <<>>)
            /\ (hasKey(last'.arg, "contexts") => t.contexts = last'.arg["contexts"])
            /\ t.createdAt = t.updatedAt
            /\ t.createdAt = now)

C4_CreateReturnsFreshFindableId == [][C4_step]_vars

\* C4 witness: a third create, without contexts and under a parent, succeeded.
C4_Witness ==
    /\ last.op = "create" /\ last.err = NoError
    /\ Cardinality(returned) = 3
    /\ ~hasKey(last.arg, "contexts")
    /\ hasKey(last.arg, "parentId")

\* C5: update(id, {parentId: undefined}) on a task that has a parent succeeds
\* and leaves the task without a parentId.
C5_UndefinedParentIdDetaches ==
    (/\ last.op = "update" /\ last.err = NoError
     /\ hasKey(last.arg, "parentId") /\ last.arg["parentId"] = Undef)
    => (/\ find(tasks, last.id) # <<>>
        /\ ~Truthy(find(tasks, last.id)[1].parentId))

\* C6: a successful update(id, patch), whatever keys the patch carries, leaves
\* the task's id and createdAt as they were, keeps the task under the key id,
\* and sets updatedAt to the time of the call.
C6_step ==
    (last'.op = "update" /\ last'.err = NoError)
    =>
    (/\ MapHas(tasks', last'.id)
     /\ MapGet(tasks', last'.id).id = last'.id
     /\ MapGet(tasks', last'.id).createdAt = MapGet(tasks, last'.id).createdAt
     /\ MapGet(tasks', last'.id).updatedAt = now
     /\ MapKeys(tasks') = MapKeys(tasks))

C6_UpdateKeepsIdAndCreatedAt == [][C6_step]_vars

\* C7: list() is exactly the PENDING tasks without parentId; list(X) is exactly
\* the PENDING tasks whose parentId is X, and is empty when X is not a task of
\* the repository.
C7_ListIsExact ==
    \A x \in ListArgs :
        LET m == listMap(tasks, store)
            got == listOf(m, x)
            want == {m[i].val : i \in {j \in 1..Len(m) :
                        /\ m[j].val.status = "PENDING"
                        /\ IF x = Undef THEN ~Truthy(m[j].val.parentId)
                                        ELSE m[j].val.parentId = x}}
        IN  /\ {got[i] : i \in 1..Len(got)} = want
            /\ Len(got) = Cardinality(want)
            /\ (x # Undef /\ ~MapHas(m, x) => got = <<>>)

\* C8: once update has set a task's status to DONE or DELETED, find(id) gives
\* undefined and no list or firstTask result holds the task, while the task
\* stays in the in-memory map and in the backing store.
hiddenIds(m) == {k \in MapKeys(m) : MapGet(m, k).status # "PENDING"}

hiddenButRetained(m, st) ==
    /\ \A k \in hiddenIds(m) :
          /\ find(m, k) = <<>>
          /\ \E i \in 1..Len(st) : st[i].id = k /\ st[i].status = MapGet(m, k).status
    /\ LET lm == listMap(m, st)
       IN  \A x \in ListArgs :
              LET got == listOf(lm, x)
              IN  /\ idsOf(got) \cap hiddenIds(m) = {}
                  /\ idsOf(firstOf(got)) \cap hiddenIds(m) = {}

C8_step ==
    /\ (/\ last'.op = "update" /\ last'.err = NoError
        /\ hasKey(last'.arg, "status") /\ last'.arg["status"] # "PENDING")
       => (/\ last'.id \in hiddenIds(tasks')
           /\ MapGet(tasks', last'.id).status = last'.arg["status"])
    /\ \A k \in hiddenIds(tasks) :
          /\ MapHas(tasks', k)
          /\ MapGet(tasks', k) = MapGet(tasks, k)

C8_DoneTasksHiddenButRetained ==
    /\ [](hiddenButRetained(tasks, store))
    /\ [][C8_step]_vars

\* C8 witness: a task's status was set to DELETED earlier, a sibling is still
\* listed, and a find of the hidden task has just returned undefined.
C8_Witness ==
    /\ last.op = "find" /\ last.ret = <<>>
    /\ MapHas(tasks, last.id)
    /\ MapGet(tasks, last.id).status = "DELETED"
    /\ Len(listOf(tasks, MapGet(tasks, last.id).parentId)) > 0

\* C9: remove(id) on a task whose status is DONE succeeds and purges the task,
\* as it does for a PENDING task: it never answers not-found for a task that
\* is present with status DONE.
C9_RemoveOfDoneTaskSucceeds ==
    (last.op = "remove" /\ MapHas(tasks, last.id)
        /\ MapGet(tasks, last.id).status = "DONE")
    => last.err = NoError

\* C10: after a successful remove(id), find(id) is undefined and every later
\* update or remove of that id fails with not-found; removing an id that was
\* never created fails with not-found and changes nothing.
C10_step ==
    /\ (last'.op = "remove" /\ last'.err = NoError)
       => (find(tasks', last'.id) = <<>> /\ last'.id \in removed')
    /\ \A id \in removed' : find(tasks', id) = <<>> /\ ~MapHas(tasks', id)
    /\ (last'.op \in {"update", "remove"} /\ last'.id \in removed)
       => (last'.err = NotFoundError /\ tasks' = tasks /\ store' = store)
    /\ (last'.op = "remove" /\ last'.id \notin returned)
       => (last'.err = NotFoundError /\ tasks' = tasks /\ store' = store)

C10_RemovedStaysRemoved == [][C10_step]_vars

\* C10 witness: an update of an id removed earlier has just failed with
\* not-found while another task is still in the repository.
C10_Witness ==
    /\ last.op = "update" /\ last.err = NotFoundError
    /\ last.id \in removed
    /\ Len(tasks) > 0

\* C11: create with a parentId (required fields present) and update with a
\* parentId other than the task's current one fail with ParentNotFoundError
\* when the repository holds no task with that id, and then neither the map
\* nor the storage changes.
C11_step ==
    /\ (/\ last'.op = "create"
        /\ firstMissing(last'.arg) = 0
        /\ Truthy(dtoParentId(last'.arg))
        /\ ~MapHas(tasks, dtoParentId(last'.arg)))
       => (/\ last'.err = "ParentNotFoundError"
           /\ tasks' = tasks /\ store' = store)
    /\ (/\ last'.op = "update"
        /\ find(tasks, last'.id) # <<>>
        /\ hasKey(last'.arg, "parentId")
        /\ Truthy(last'.arg["parentId"])
        /\ last'.arg["parentId"] # MapGet(tasks, last'.id).parentId
        /\ ~MapHas(tasks, last'.arg["parentId"]))
       => (/\ last'.err = "ParentNotFoundError"
           /\ tasks' = tasks /\ store' = store)

C11_ParentNotFound == [][C11_step]_vars

\* C11 witness: an update that would have moved a child from its parent to an
\* id the repository does not hold has failed with ParentNotFoundError.
C11_Witness ==
    /\ last.op = "update" /\ last.err = "ParentNotFoundError"
    /\ ~MapHas(tasks, last.arg["parentId"])
    /\ Truthy(MapGet(tasks, last.id).parentId)

\* C12: create fails with MissingRequiredFieldError when one of title,
\* summary, description, prompt, role is absent or empty; the error names the
\* first such field in that order, also when the parentId is unknown, and
\* nothing is added to the map or the storage.
C12_step ==
    (/\ last'.op = "create"
     /\ \E i \in 1..Len(requiredFields) :
            ~hasKey(last'.arg, requiredFields[i]) \/ last'.arg[requiredFields[i]] = "")
    => (/\ last'.err = "MissingRequiredFieldError"
        /\ \E i \in 1..Len(requiredFields) :
              /\ last'.ret = requiredFields[i]
              /\ ~hasKey(last'.arg, requiredFields[i]) \/ last'.arg[requiredFields[i]] = ""
              /\ \A j \in 1..(i - 1) :
                    hasKey(last'.arg, requiredFields[j]) /\ last'.arg[requiredFields[j]] # ""
        /\ tasks' = tasks /\ store' = store)

C12_MissingRequiredField == [][C12_step]_vars

\* C12 witness: a create lacking summary and role and naming an unknown parent
\* has failed with MissingRequiredFieldError for summary, in a repository that
\* already holds a task.
C12_Witness ==
    /\ last.op = "create" /\ last.err = "MissingRequiredFieldError"
    /\ last.ret = "summary"
    /\ last.arg["role"] = ""
    /\ dtoParentId(last.arg) = UnknownId
    /\ Len(tasks) > 0

\* C13: a successful remove(id, {cascade}) takes exactly the task with that id
\* out of the map and the storage and leaves every other task, the removed
\* task's descendants included, as it was, whatever the cascade flag is.
C13_step ==
    (last'.op = "remove" /\ last'.err = NoError)
    => (/\ MapHas(tasks, last'.id)
        /\ MapKeys(tasks') = MapKeys(tasks) \ {last'.id}
        /\ \A k \in MapKeys(tasks') : MapGet(tasks', k) = MapGet(tasks, k)
        /\ \A i \in 1..Len(store') : store'[i].id # last'.id
        /\ LET keep == {i \in 1..Len(store) : store[i].id # last'.id}
           IN  /\ Len(store') = Cardinality(keep)
               /\ \A i \in keep :
                     store'[Cardinality({j \in keep : j <= i})] = store[i])

C14_CascadeRemovesDescendants ==
    (/\ last.op = "removeTask" /\ last.ret = "Task removed successfully"
     /\ last.arg = [cascade |-> TRUE])
    => (/\ ~MapHas(tasks, last.id)
        /\ \A k \in MapKeys(tasks) : ~reachesUp(tasks, MapGet(tasks, k).parentId, last.id, Len(tasks))
        /\ \A i \in 1..Len(store) : store[i].id # last.id /\ store[i].parentId # last.id)

\* C15: after completeTask(id) has answered that the task is marked as
\* completed, the task's status is DONE, and neither find nor any list or
\* first-task query returns it.
C15_CompleteTaskSetsDone ==
    (last.op = "completeTask" /\ last.ret = "Task marked as completed")
    => (/\ MapHas(tasks, last.id)
        /\ MapGet(tasks, last.id).status = "DONE"
        /\ find(tasks, last.id) = <<>>
        /\ \A x \in ListArgs :
              last.id \notin idsOf(listOf(listMap(tasks, store), x)))

\* C16: find and list hand out copies: an assignment a caller makes to a
\* task it was given changes neither the task in the map nor what a later
\* find or list returns.
C16_step ==
    (last'.op = "callerWrites")
    => (/\ tasks' = tasks
        /\ find(tasks', last'.id) = find(tasks, last'.id)
        /\ \A x \in ListArgs : listOf(tasks', x) = listOf(tasks, x))

C16_CallersReceiveCopies == [][C16_step]_vars

\* ------------------------------------------------------------ C17 .. C19
\* two records agree on every key that holds a value
sameRecord(a, b) ==
    /\ definedKeys(a) = definedKeys(b)
    /\ \A k \in definedKeys(a) : a[k] = b[k]

sameRecords(s1, s2) ==
    /\ Len(s1) = Len(s2)
    /\ \A i \in 1..Len(s1) : sameRecord(s1[i], s2[i])

sameField(a, b, k) ==
    /\ (k \in definedKeys(a)) = (k \in definedKeys(b))
    /\ k \in definedKeys(a) => a[k] = b[k]

C18_step ==
    (/\ last'.op = "createTask"
     /\ last'.err = NoError
     /\ store = <<>>
     /\ DOMAIN last'.arg = {"title"})
    => LET got == storageGetTasks(store', Undef)
       IN /\ Len(got) = 1
          /\ got[1].title = last'.arg["title"]
          /\ got[1].summary = ""
          /\ got[1].description = ""
          /\ got[1].prompt = ""
          /\ got[1].role = ""
          /\ got[1].contexts = <<>>
          /\ got[1].status = "PENDING"
          /\ got[1].id # Undef
          /\ got[1].id = last'.ret.id
          /\ got[1].createdAt = now
          /\ got[1].updatedAt = now

C18_TitleOnlyRoundTrip == [][C18_step]_vars

C18_Witness ==
    /\ last.op = "createTask"
    /\ last.err = NoError
    /\ DOMAIN last.arg = {"title"}
    /\ Len(store) = 1
    /\ store[1].id = last.ret.id

\* C19: updateTask(id, patch) on an initialised store fails with the
\* not-found error and changes nothing when no record has the id; otherwise
\* it changes the first record with that id only: the fields the patch
\* carries take the patch's values, every other field keeps its value, id and
\* createdAt stay even if the patch carries them, updatedAt is the time of
\* the call, and getTasks afterwards returns the merged record.
C19_step ==
    (last'.op = "updateTask" /\ filePath # Undef)
    => IF storageFindIndex(store, last'.id) = 0
       THEN /\ last'.err = StoreNotFoundError
            /\ store' = store
            /\ file' = file
       ELSE LET i == storageFindIndex(store, last'.id)
                patch == last'.arg
                old == store[i]
                new == store'[i]
                got == storageGetTasks(store', Undef)
            IN /\ last'.err = NoError
               /\ Len(store') = Len(store)
               /\ \A j \in 1..Len(store) : j # i => store'[j] = store[j]
               /\ new.id = old.id
               /\ new.createdAt = old.createdAt
               /\ new.updatedAt = now
               /\ \A k \in DOMAIN patch \ {"id", "createdAt", "updatedAt"} :
                     field(new, k) = patch[k]
               /\ \A k \in namedFields \ DOMAIN patch : sameField(new, old, k)
               /\ sameRecord(got[i], new)
               /\ sameRecord(last'.ret, new)

C19_UpdateTaskMerges == [][C19_step]_vars

\* an update whose patch carried another id and creation time
C19_Witness ==
    /\ last.op = "updateTask"
    /\ last.err = NoError
    /\ "id" \in DOMAIN last.arg
    /\ last.ret.id = last.id
    /\ last.ret.id # last.arg["id"]
    /\ last.ret.title = last.arg["title"]

\* ------------------------------------------------------------ C20
\* TomlFileStorage.deleteTask: never an error on an initialised store, removes
\* the records with that id and no other, leaves memory and file as they
\* were when no record has the id, and a second call changes nothing more.
C20_tomlStep ==
    (last'.op = "deleteTask" /\ filePath # Undef)
    => /\ last'.err = NoError
       /\ store' = SelectSeq(store, LAMBDA r : r.id # last'.id)
       /\ storageFindIndex(store, last'.id) = 0 => (store' = store /\ file' = file)
       /\ storageDeleteTask(store', last'.id) = store'

\* MarkdownStorage.deleteTask: for an id without a bullet line it resolves
\* and leaves tasks.md as it was; a second call changes nothing more.
C20_mdStep ==
    (last'.op = "mdDeleteTask" /\ filePath # Undef)
    => /\ last'.id \notin storedIds(tasksFile)
            => (last'.err = NoError /\ tasksFile' = tasksFile)
       /\ join(linesAfterDelete(split(readTasksFile(tasksFile'), Newline), last'.id), Newline)
            = readTasksFile(tasksFile')

\* C20: in both storage backends deleteTask(id) for an id that is not stored
\* resolves without error and leaves the stored tasks unchanged, deleteTask
\* applied twice has the effect of deleteTask applied once, and in
\* TomlFileStorage deleting a stored id removes only the record with that id.
C20_DeleteUnknownIdChangesNothing == [][C20_tomlStep /\ C20_mdStep]_vars

C20_TomlDelete == [][C20_tomlStep]_vars

\* ------------------------------------------------------------ C21, C22
StoreOps == {"createTask", "getTasks", "updateTask", "deleteTask"}

\* C21: init without a file path fails with the configuration error and
\* leaves the store as uninitialised as it was; createTask, getTasks,
\* updateTask and deleteTask on a store that no init has initialised fail
\* with the not-initialised error, and the in-memory list and the file stay
\* as they were.
C21_step ==
    /\ (last'.op = "init" /\ ~Truthy(field(last'.arg, "filePath")))
        => /\ last'.err = ConfigError
           /\ filePath' = filePath
           /\ store' = store
           /\ file' = file
    /\ (last'.op \in StoreOps /\ filePath = Undef)
        => /\ last'.err = NotInitializedError
           /\ filePath' = Undef
           /\ store' = store
           /\ file' = file

C22_step ==
    (/\ last'.op = "init"
     /\ Truthy(field(last'.arg, "filePath"))
     /\ file.kind \in {"missing", "unreadable", "garbage"})
    => /\ last'.err = NoError
       /\ filePath' = last'.arg["filePath"]
       /\ store' = <<>>
       /\ file' = [kind |-> "toml", tasks |-> <<>>]
       /\ storageGetTasks(store', Undef) = <<>>

C22_InitOnBadFile == [][C22_step]_vars

C22_Witness ==
    /\ last.op = "init"
    /\ last.err = NoError
    /\ filePath = StoragePath
    /\ store = <<>>
    /\ file = [kind |-> "toml", tasks |-> <<>>]
    /\ uuidSeq = 0

\* ------------------------------------------------------------ C23 .. C27
\* the files as the first n patches of a batch leave them
diskAfter(d, patches, n) == findAndReplacePatches(d, SubSeq(patches, 1, n)).disk

readable(f) == f.exists /\ "unreadable" \notin DOMAIN f

\* text with every occurrence of a non-empty from, found left to right,
\* replaced by to
RECURSIVE replacedEverywhere(_, _, _)
replacedEverywhere(text, from, to) ==
    IF text = <<>> THEN <<>>
    ELSE IF startsWith(text, from)
    THEN to \o replacedEverywhere(SubSeq(text, Len(from) + 1, Len(text)), from, to)
    ELSE <<Head(text)>> \o replacedEverywhere(Tail(text), from, to)

\* C23: a patch whose file exists and whose from does not occur in the
\* content leaves the file holding the old content, then a line break if the
\* old content is non-empty and does not end with one, then to; the patch is
\* reported appended, changed and without error.
C23_step ==
    last'.op = "findAndReplace" =>
        \A i \in 1..Len(last'.arg) :
            LET patch == last'.arg[i]
                old == diskAfter(disk, last'.arg, i - 1)[patch.file]
                new == IF i = Len(last'.arg) THEN disk'[patch.file]
                       ELSE diskAfter(disk, last'.arg, i)[patch.file]
            IN (readable(old) /\ ~includes(old.content, patch.from))
               => /\ new.exists
                  /\ new.content =
                        old.content
                        \o (IF old.content # <<>> /\ old.content[Len(old.content)] # "\n"
                            THEN <<"\n">> ELSE <<>>)
                        \o patch.to
                  /\ last'.ret[i].appended
                  /\ last'.ret[i].changed
                  /\ last'.ret[i].err = NoError

C23_AppendOnMiss == [][C23_step]_vars

\* b appended to the content a behind a line break
C23_Witness ==
    /\ last.op = "findAndReplace"
    /\ Len(last.ret) = 1
    /\ last.ret[1].appended
    /\ last.ret[1].to = <<"b">>
    /\ disk[TaskFilePath].content = <<"a", "\n", "b">>

\* C24: a patch whose file does not exist is reported with the file-not-found
\* error, neither changed nor appended, and the file still does not exist.
C24_step ==
    last'.op = "findAndReplace" =>
        \A i \in 1..Len(last'.arg) :
            LET patch == last'.arg[i]
                old == diskAfter(disk, last'.arg, i - 1)[patch.file]
                new == IF i = Len(last'.arg) THEN disk'[patch.file]
                       ELSE diskAfter(disk, last'.arg, i)[patch.file]
            IN ~old.exists
               => /\ last'.ret[i].err = FileNotExistedError
                  /\ ~last'.ret[i].changed
                  /\ ~last'.ret[i].appended
                  /\ ~new.exists

C24_MissingFile == [][C24_step]_vars

C24_Witness ==
    /\ last.op = "findAndReplace"
    /\ Len(last.ret) = 1
    /\ last.ret[1].err = FileNotExistedError
    /\ ~disk[last.ret[1].file].exists

\* C25: a batch gives one result per patch, in the order of the patches;
\* each patch is applied to the files as the patches before it left them,
\* whether or not those failed.
C25_step ==
    last'.op = "findAndReplace" =>
        /\ Len(last'.ret) = Len(last'.arg)
        /\ \A i \in 1..Len(last'.arg) :
              LET patch == last'.arg[i]
                  before == diskAfter(disk, last'.arg, i - 1)
                  alone == findAndReplacePatches(before, <<patch>>)
              IN /\ last'.ret[i] = alone.results[1]
                 /\ last'.ret[i].file = patch.file
                 /\ last'.ret[i].from = patch.from
                 /\ last'.ret[i].to = patch.to
                 /\ i = Len(last'.arg) => disk' = alone.disk

C25_BatchIsSequential == [][C25_step]_vars

\* a first patch that failed, a second one that changed its file
C25_Witness ==
    /\ last.op = "findAndReplace"
    /\ Len(last.ret) = 2
    /\ last.ret[1].err # NoError
    /\ last.ret[2].err = NoError
    /\ last.ret[2].changed

\* C26: when a non-empty from occurs in the file, the file afterwards holds
\* the content with every occurrence replaced by to, the patch is not
\* appended, and it is reported changed exactly when the content differs
\* from the original; a patch with from equal to to leaves the file as it was.
C26_step ==
    last'.op = "findAndReplace" =>
        \A i \in 1..Len(last'.arg) :
            LET patch == last'.arg[i]
                old == diskAfter(disk, last'.arg, i - 1)[patch.file]
                new == IF i = Len(last'.arg) THEN disk'[patch.file]
                       ELSE diskAfter(disk, last'.arg, i)[patch.file]
            IN (readable(old) /\ includes(old.content, patch.from))
               => /\ patch.from # <<>>
                     => new.content = replacedEverywhere(old.content, patch.from, patch.to)
                  /\ last'.ret[i].changed = (new.content # old.content)
                  /\ ~last'.ret[i].appended
                  /\ last'.ret[i].err = NoError
                  /\ patch.from = patch.to => (~last'.ret[i].changed /\ new = old)

C27_step ==
    (last'.op = "findAndReplace" /\ Len(last'.arg) = 1)
    => findAndReplacePatches(disk', last'.arg).disk = disk'

C27_PatchingIsIdempotent == [][C27_step]_vars

\* ------------------------------------------------------------ C28 .. C30
hasParentLine(content, task) ==
    /\ "parentId" \in DOMAIN task
    /\ task.parentId # <<>>
    /\ findLine(split(content, Newline), idToken(task.parentId)) # 0

\* C28: createTask with a parentId that has a line puts the new bullet line
\* directly below the parent's line, indented by the parent's indentation
\* plus one tab; the lines that were there stay as they were and in their
\* order, and getTasks(parentId) then has the new task.
C28_step ==
    (/\ last'.op = "mdCreateTask"
     /\ last'.err = NoError
     /\ hasParentLine(readTasksFile(tasksFile), last'.arg))
    => LET old == split(readTasksFile(tasksFile), Newline)
           new == split(readTasksFile(tasksFile'), Newline)
           p == findLine(old, idToken(last'.arg.parentId))
       IN /\ Len(new) = Len(old) + 1
          /\ \A i \in 1..p : new[i] = old[i]
          /\ new[p + 1] = leadingWhitespace(old[p]) \o <<"\t">>
                            \o taskEntry(last'.ret.title, last'.id)
          /\ \A i \in (p + 1)..Len(old) : new[i + 1] = old[i]
          /\ \E i \in 1..Len(mdGetTasksOf(readTasksFile(tasksFile'), last'.arg.parentId)) :
                mdGetTasksOf(readTasksFile(tasksFile'), last'.arg.parentId)[i].id = last'.id

C28_ChildGoesBelowParent == [][C28_step]_vars

\* a task created two levels deep
C28_Witness ==
    /\ last.op = "mdCreateTask"
    /\ last.err = NoError
    /\ "parentId" \in DOMAIN last.arg
    /\ \E i \in 1..Len(split(readTasksFile(tasksFile), Newline)) :
          split(readTasksFile(tasksFile), Newline)[i]
            = <<"\t", "\t">> \o taskEntry(last.ret.title, last.id)

\* C29: createTask without a parentId, or with one that has no line, makes
\* the task's unindented bullet line the last line of tasks.md, and getTasks()
\* then has the task; from every state of the file, the empty file that init
\* creates included.
C29_step ==
    (/\ last'.op = "mdCreateTask"
     /\ last'.err = NoError
     /\ ~hasParentLine(readTasksFile(tasksFile), last'.arg))
    => LET new == split(readTasksFile(tasksFile'), Newline)
           listed == mdGetTasksOf(readTasksFile(tasksFile'), <<>>)
       IN /\ new[Len(new)] = taskEntry(last'.ret.title, last'.id)
          /\ \E i \in 1..Len(listed) : listed[i].id = last'.id

C29_TopLevelTaskIsAppended == [][C29_step]_vars

\* C30: getTask(id) on an initialised store returns, for an id that has a
\* bullet line, the title the line was written with and is_completed as the
\* line's mark says; for an id without a line it fails with the not-found
\* error.
C30_step ==
    (last'.op = "mdGetTask" /\ filePath # Undef)
    => IF last'.id \in storedIds(tasksFile)
       THEN /\ last'.err = NoError
            /\ \E i \in 1..Len(split(readTasksFile(tasksFile), Newline)) :
                  LET line == split(readTasksFile(tasksFile), Newline)[i]
                  IN /\ idMatch(line) = <<last'.id>>
                     /\ line = leadingWhitespace(line)
                                \o taskEntry(last'.ret.title, last'.id)
                     /\ last'.ret.is_completed = FALSE
       ELSE last'.err = MdNotFoundError

C30_GetTaskReturnsTitle == [][C30_step]_vars

\* ------------------------------------------------------------ C31 .. C35
\* the pieces of a bullet line up to and including its mark
markOf(line) == SubSeq(line, 1, Len(leadingWhitespace(line)) + Len(PendingMark))

listedIds(content, parentId) ==
    {mdGetTasksOf(content, parentId)[i].id : i \in 1..Len(mdGetTasksOf(content, parentId))}

\* C31: updateTask(id, {title: T2}) on a task that has a line rewrites only
\* the title span of that line: mark, indentation and id token of the line
\* and all other lines stay as they were, the task is listed by getTasks()
\* as before, and getTask(id) then reports T2.
C31_step ==
    (/\ last'.op = "mdUpdateTask"
     /\ last'.err = NoError
     /\ DOMAIN last'.arg = {"title"})
    => LET old == split(tasksFile.content, Newline)
           new == split(tasksFile'.content, Newline)
           p == findLine(old, idToken(last'.id))
       IN /\ Len(new) = Len(old)
          /\ \A i \in 1..Len(old) : i # p => new[i] = old[i]
          /\ markOf(new[p]) = markOf(old[p])
          /\ idMatch(new[p]) = idMatch(old[p])
          /\ listedIds(tasksFile'.content, <<>>) = listedIds(tasksFile.content, <<>>)
          /\ mdGetTaskOf(findInFile(tasksFile'.content, idToken(last'.id)),
                         last'.id, contentDir').title = last'.arg.title

C31_TitleUpdateKeepsTheRest == [][C31_step]_vars

\* C32: updateTask(id, {is_completed: b}) on a task that has a line, at
\* whatever depth, leaves the line's mark done for b = true and pending for
\* b = false, and getTask(id) then reports is_completed = b.
C32_step ==
    (/\ last'.op = "mdUpdateTask"
     /\ last'.err = NoError
     /\ DOMAIN last'.arg = {"is_completed"})
    => LET line == findInFile(tasksFile'.content, idToken(last'.id))
       IN /\ markOf(line) = leadingWhitespace(line)
                              \o (IF last'.arg.is_completed THEN DoneMark ELSE PendingMark)
          /\ mdGetTaskOf(line, last'.id, contentDir').is_completed = last'.arg.is_completed

C32_CompletionMarkFollowsUpdate == [][C32_step]_vars

\* the same for tasks whose line is not indented and still carries a mark
C32_TopLevelStep ==
    (/\ last'.op = "mdUpdateTask"
     /\ last'.err = NoError
     /\ DOMAIN last'.arg = {"is_completed"}
     /\ LET was == findInFile(tasksFile.content, idToken(last'.id))
        IN startsWith(was, PendingMark) \/ startsWith(was, DoneMark))
    => C32_step

C32_TopLevelMark == [][C32_TopLevelStep]_vars

\* the lines whose id token names exactly this id
linesOf(lines, id) == {i \in 1..Len(lines) : idMatch(lines[i]) = <<id>>}

\* the first line after p that is not indented deeper than line p, one past
\* the end when there is none
subtreeEnd(lines, p) ==
    LET stops == {q \in (p + 1)..Len(lines) :
                    Len(leadingWhitespace(lines[q])) <= Len(leadingWhitespace(lines[p]))}
    IN IF stops = {} THEN Len(lines) + 1 ELSE CHOOSE q \in stops : \A r \in stops : q <= r

\* C33: deleteTask(id) of a task that has a line removes that line and the
\* lines below it that are indented deeper, up to the first line that is not;
\* the lines before and after stay as they were and in their order.
C33_step ==
    (/\ last'.op = "mdDeleteTask"
     /\ last'.err = NoError
     /\ filePath # Undef
     /\ linesOf(split(readTasksFile(tasksFile), Newline), last'.id) # {})
    => LET old == split(readTasksFile(tasksFile), Newline)
           p == CHOOSE i \in linesOf(old, last'.id) : \A j \in linesOf(old, last'.id) : i <= j
       IN split(readTasksFile(tasksFile'), Newline)
            = IF SubSeq(old, 1, p - 1) \o SubSeq(old, subtreeEnd(old, p), Len(old)) = <<>>
              THEN <<<<>>>>
              ELSE SubSeq(old, 1, p - 1) \o SubSeq(old, subtreeEnd(old, p), Len(old))

C33_DeleteCascades == [][C33_step]_vars

\* the line of u2, a child of u1, went with deleteTask(u1) while the saved
\* task above them stayed
C33_Witness ==
    /\ last.op = "mdDeleteTask"
    /\ last.err = NoError
    /\ last.id = mdUUID(1)
    /\ storedIds(tasksFile) = {savedId}
    /\ \E c \in contentDir : c.id = mdUUID(2)

\* C34: getTasks(parentId) for a parent that has a line returns, in file
\* order, the tasks of the lines that stand between the parent's line and the
\* end of its subtree and are indented by the parent's indentation plus one
\* tab: no deeper line and no line behind the subtree.
C34_step ==
    (/\ last'.op = "mdGetTasks"
     /\ last'.err = NoError
     /\ last'.id # <<>>
     /\ linesOf(split(tasksFile.content, Newline), last'.id) # {})
    => LET lines == split(tasksFile.content, Newline)
           p == CHOOSE i \in linesOf(lines, last'.id) : \A j \in linesOf(lines, last'.id) : i <= j
           children == SelectSeq(SubSeq(lines, p + 1, subtreeEnd(lines, p) - 1),
                                 LAMBDA line : leadingWhitespace(line)
                                                 = leadingWhitespace(lines[p]) \o <<"\t">>)
       IN /\ Len(last'.ret) = Len(children)
          /\ \A i \in 1..Len(children) :
                /\ <<last'.ret[i].id>> = idMatch(children[i])
                /\ last'.ret[i].parentId = last'.id

C34_DirectChildrenOnly == [][C34_step]_vars

\* getTasks of the saved task returned nothing while the line below the next
\* top-level task is indented by one tab
C34_Witness ==
    /\ last.op = "mdGetTasks"
    /\ last.err = NoError
    /\ last.id = savedId
    /\ last.ret = <<>>
    /\ linesOf(split(tasksFile.content, Newline), savedId) # {}
    /\ \E i \in 1..Len(split(tasksFile.content, Newline)) :
          leadingWhitespace(split(tasksFile.content, Newline)[i]) = <<"\t">>

\* getTasks of the saved task returned its child and not its grandchild
C34_GrandchildLeftOut ==
    /\ last.op = "mdGetTasks"
    /\ last.id = savedId
    /\ Len(last.ret) = 1
    /\ \E i \in 1..Len(split(tasksFile.content, Newline)) :
          leadingWhitespace(split(tasksFile.content, Newline)[i]) = <<"\t", "\t">>

\* C35: after createTask with payload fields, getTask(id) reads back the
\* prompt, role and context given at creation; and createTask for an id whose
\* content file exists leaves that file as it is.
C35_step ==
    (last'.op = "mdCreateTask" /\ last'.err = NoError)
    => LET read == mdGetTaskOf(findInFile(tasksFile'.content, idToken(last'.id)),
                               last'.id, contentDir')
       IN /\ findInFile(tasksFile'.content, idToken(last'.id)) # <<>>
             => /\ read.prompt = last'.ret.prompt
                /\ read.role = last'.ret.role
                /\ read.context = last'.ret.context
          /\ \A c \in contentDir : c.id = last'.id => c \in contentDir'

C35_PayloadRoundTrip == [][C35_step]_vars

\* the half of C35 that is about tasks created without payload fields, whose
\* content file did not exist or was empty
C35_EmptyPayloadStep ==
    (/\ last'.op = "mdCreateTask" /\ last'.err = NoError
     /\ last'.ret.prompt = <<>> /\ last'.ret.role = <<>> /\ last'.ret.context = <<>>
     /\ \A c \in contentDir : c.id = last'.id => c.content = <<>>)
    => C35_step

C35_EmptyPayload == [][C35_EmptyPayloadStep]_vars

\* ------------------------------------------------------------ C36 .. C40
\* C36: after every sequence of create, update and remove calls,
\* storage.getTasks() holds exactly one record for each task of the map, no
\* two records share an id, and each record has the fields of the task in
\* the map.
C36_StorageMirrorsMap ==
    LET recs == storageGetTasks(store, Undef)
    IN /\ \A i, j \in 1..Len(recs) : recs[i].id = recs[j].id => i = j
       /\ {recs[i].id : i \in 1..Len(recs)} = MapKeys(tasks)
       /\ \A i \in 1..Len(recs) :
             MapHas(tasks, recs[i].id) => sameRecord(recs[i], MapGet(tasks, recs[i].id))

\* the same without update: create and remove alone keep the mirror
C36_step ==
    (\A i \in 1..Len(store) : \A j \in 1..Len(store) : store[i].id = store[j].id => i = j)
    => (last'.op \in {"create", "remove", "find", "list", "firstTask"}
         => C36_StorageMirrorsMap')

C36_MirrorWithoutUpdate == [][C36_step]_vars

\* C37: when the load started by the constructor has completed, the map
\* holds every task storage.getTasks() returned under the task's own id, and
\* find(id) returns each such task that is PENDING.
C37_step ==
    last'.op = "load"
    => \A i \in 1..Len(loading[1]) :
          LET t == loading[1][i]
          IN /\ MapHas(tasks', t.id)
             /\ sameRecord(MapGet(tasks', t.id), t)
             /\ t.status = "PENDING" => find(tasks', t.id) # <<>>

C37_LoadKeysTasksById == [][C37_step]_vars

\* C38: the load never discards a mutation: a task whose create has
\* succeeded, and which was not removed, is in the map after the load has
\* finished.
C38_step ==
    last'.op = "load" => \A id \in returned \ removed : MapHas(tasks', id)

C38_LoadKeepsCreatedTasks == [][C38_step]_vars

\* C39: when the storage call of create, update or remove fails, the
\* operation fails with that error and the map is as it was before the call.
C39_step == last'.err = StorageWriteError => tasks' = tasks

C39_FailedWriteLeavesMap == [][C39_step]_vars

\* the ids that have a content file
contentIds(dir) == {c.id : c \in dir}

\* C40: the content directory holds a content file for exactly the ids that
\* have a bullet line in the list file, and createTask and deleteTask keep it
\* so: after deleteTask(id) no content file is left for id or for a descendant
\* whose line went with the cascade.
C40_step ==
    (/\ last'.op \in {"mdCreateTask", "mdDeleteTask"}
     /\ last'.err = NoError
     /\ contentIds(contentDir) = storedIds(tasksFile))
    => contentIds(contentDir') = storedIds(tasksFile')

C40_ContentFilesMatchLines == [][C40_step]_vars

\* C40, the deleteTask half on its own: after deleteTask(id) of a task that
\* has a line, no content file is left for an id whose line went, the task's
\* own or a descendant's.
C40_CascadeStep ==
    (/\ last'.op = "mdDeleteTask"
     /\ last'.err = NoError
     /\ last'.id \in storedIds(tasksFile))
    => \A id \in storedIds(tasksFile) \ storedIds(tasksFile') :
            id \notin contentIds(contentDir')

C40_NoContentFileForRemovedLine == [][C40_CascadeStep]_vars

\* the part of C40 that the code keeps: deleteTask(id) leaves no content file
\* for id itself
C40_OwnFileStep ==
    (last'.op = "mdDeleteTask" /\ last'.err = NoError)
    => last'.id \notin contentIds(contentDir')

C40_OwnContentFileRemoved == [][C40_OwnFileStep]_vars

====
